---------------------------- MODULE Spec2Model ----------------------------
(***************************************************************************)
(* Snapshot-acquisition engine of the Wayback archive toolkit:             *)
(*   CrawlerDB       the persistent work queue (table urls)                *)
(*   WaybackCrawler  the main loop, page processing, link discovery        *)
(*   AssetExtractor  internal/external classification of asset references  *)
(*   AssetFetcher    sequential asset fetch, size gate, two-tier dedup     *)
(*   DatabaseService the asset store (table assets)                        *)
(*                                                                         *)
(* Strings that the code takes apart (host names) are sequences of chunks, *)
(* e.g. "www.ex.com" is <<"www.", "ex.com">>; two hosts are the same       *)
(* string exactly when they are the same sequence.                         *)
(***************************************************************************)
EXTENDS Integers, Sequences, FiniteSets, TLC

(***************************************************************************)
(* Bounds of the model.                                                    *)
(***************************************************************************)
\* halts (abrupt process kills) explored per behaviour
MaxCrashes == 1
\* runs of the crawler (first start and restarts) per behaviour
MaxRuns == 2
\* assets handed to the store-enabled fetcher per behaviour, over all of its
\* fetchAssets calls
MaxFetches == 3
\* operations applied to the queue per behaviour of the queue specification
MaxQueueOps == 4
\* file writes that fail in a behaviour
MaxFaults == 1
\* lines of a selections file
MaxLines == 3

(***************************************************************************)
(* State.                                                                  *)
(***************************************************************************)
VARIABLES
    urls,       \* CrawlerDB: the rows of table urls (crawler_state.db)
    pc,         \* where the running process is
    cur,        \* crawlOne: the record getNextUrl returned
    page,       \* crawlOne: the fetched body and the content to save
    call,       \* fetchAssets: its arguments, loop index, result so far
    dbOn,       \* AssetFetcher.db: constructed with a DatabaseService or not
    assetRows,  \* DatabaseService: the rows of table assets
    fs,         \* the files below outputDir
    upstream,   \* the archive: the answers it may give for each archive URL
    gets,       \* history: requests sent so far, per archive URL
    hist,       \* history: counters and what the queue held at the last halt
    ret,        \* queue specification: what the last operation returned
    opts,       \* WaybackCrawler.options: the scheduler settings
    clock,      \* the local wall clock, in minutes since midnight
    env         \* what the environment may do to the process

vars ==
    <<urls, pc, cur, page, call, dbOn, assetRows, fs, upstream, gets, hist, ret,
      opts, clock, env>>

(***************************************************************************)
(* Hosts, URLs, timestamps.                                                *)
(***************************************************************************)
Dom == <<"ex.com">>
WwwHost == <<"www.">> \o Dom
SubHost == <<"cdn.">> \o Dom
SuffixHost == <<"not">> \o Dom
OtherHost == <<"cdn.", "y.com">>
\* the host of a reference that new URL() cannot parse
NoHost == <<>>

Hosts == {Dom, WwwHost, SubHost, SuffixHost, OtherHost}

TS1 == "20230101000000"
TS2 == "20240101000000"
Timestamps == {TS1, TS2}

ArchiveHost == <<"web.archive.org">>

\* a URL: host, path segments (<<>> is "/"), query string ("" is none);
\* wrap = t # "" says the string is https://web.archive.org/web/{t}/{the URL}
Url(h, p, q) == [host |-> h, path |-> p, query |-> q, wrap |-> ""]

Wrapped(t, u) == [u EXCEPT !.wrap = t]

\* new URL(u).hostname
Host(u) == IF u.wrap # "" THEN ArchiveHost ELSE u.host

\* new URL(u).pathname, as its segments
Pathname(u) == IF u.wrap # "" THEN <<"web", u.wrap, "https:">> \o u.host \o u.path ELSE u.path

\* whether new URL(u) succeeds
Parses(u) == Host(u) # NoHost

\* hostname.endsWith(domain)
EndsWith(h, d) == Len(h) >= Len(d) /\ SubSeq(h, Len(h) - Len(d) + 1, Len(h)) = d

\* hostname.replace('www.', ''): the first occurrence goes
StripWww(h) ==
    IF \E i \in 1..Len(h) : h[i] = "www."
    THEN LET k == CHOOSE i \in 1..Len(h) : h[i] = "www." /\ \A j \in 1..(i - 1) : h[j] # "www."
         IN SubSeq(h, 1, k - 1) \o SubSeq(h, k + 1, Len(h))
    ELSE h

NULL == "NULL"
NoPath == <<>>
NoUrl == Url(NoHost, <<>>, "")

(***************************************************************************)
(* What a response body or a file holds: a sequence of nodes.  An HTML     *)
(* document is the sequence of its elements in document order (tag, rel    *)
(* attribute, href/src attribute, tag of the parent element); opaque bytes *)
(* are one node that carries their identity; the JSON logs are one node    *)
(* per entry.                                                              *)
(***************************************************************************)
Node(tag, rel, url, parent, w, size) ==
    [tag |-> tag, rel |-> rel, url |-> url, parent |-> parent,
     waybackUrl |-> w, sizeBytes |-> size]

Elem(tag, rel, url, parent) == Node(tag, rel, url, parent, NoUrl, 0)

Bytes(b) == << Node("bytes", b, NoUrl, "", NoUrl, 0) >>

\* a CSS file: one node per url(...) reference
CssRef(url) == Node("url()", "", url, "", NoUrl, 0)

(***************************************************************************)
(* CrawlerDB: the table urls, kept as the sequence of its rows in rowid    *)
(* (insertion) order.                                                      *)
(***************************************************************************)
HasKey(rows, u, t) == \E i \in 1..Len(rows) : rows[i].url = u /\ rows[i].timestamp = t

NewRow(u, t, d, s) ==
    [url |-> u, timestamp |-> t, domain |-> d, status |-> s,
     local_path |-> NoPath, error |-> NULL, fetched_at |-> FALSE]

\* INSERT OR REPLACE instead of INSERT OR IGNORE: the row is rewritten
addUrlReplace(rows, u, t, d, s) ==
    IF HasKey(rows, u, t)
    THEN [i \in 1..Len(rows) |->
            IF rows[i].url = u /\ rows[i].timestamp = t THEN NewRow(u, t, d, s) ELSE rows[i]]
    ELSE Append(rows, NewRow(u, t, d, s))

\* a table without the primary key: every INSERT adds a row
addUrlNoKey(rows, u, t, d, s) == Append(rows, NewRow(u, t, d, s))

\* INSERT OR IGNORE INTO urls (url, timestamp, domain, status)
addUrl(rows, u, t, d, s) ==
    IF HasKey(rows, u, t) THEN rows ELSE Append(rows, NewRow(u, t, d, s))

\* a SELECT without the WHERE clause
NextCandidatesAnyStatus(rows) == 1..Len(rows)

\* the rows SELECT ... WHERE status = 'pending' LIMIT 1 may return (the
\* statement has no ORDER BY, so any pending row)
NextCandidates(rows) == {i \in 1..Len(rows) : rows[i].status = "pending"}

\* getNextUrl's result for the row picked: url, timestamp, domain only
UrlRecord(row) == [url |-> row.url, timestamp |-> row.timestamp, domain |-> row.domain]

NoRecord == [url |-> NoUrl, timestamp |-> NULL, domain |-> NoHost]

\* the UPDATE of markCompleted without its WHERE clause
markCompletedAllRows(rows, u, t, lp) ==
    [i \in 1..Len(rows) |->
        [rows[i] EXCEPT !.status = "completed", !.local_path = lp, !.fetched_at = TRUE]]

\* an UPDATE of markCompleted that sets the status only
markCompletedNoPath(rows, u, t, lp) ==
    [i \in 1..Len(rows) |->
        IF rows[i].url = u /\ rows[i].timestamp = t
        THEN [rows[i] EXCEPT !.status = "completed", !.fetched_at = TRUE]
        ELSE rows[i]]

\* UPDATE urls SET status='completed', local_path=?, fetched_at=now WHERE url=? AND timestamp=?
markCompleted(rows, u, t, lp) ==
    [i \in 1..Len(rows) |->
        IF rows[i].url = u /\ rows[i].timestamp = t
        THEN [rows[i] EXCEPT !.status = "completed", !.local_path = lp, !.fetched_at = TRUE]
        ELSE rows[i]]

\* an UPDATE of markFailed that matches no row
markFailedNoRow(rows, u, t, e) == rows

\* an upsert instead of the UPDATE: a missing key gets a failed row
markFailedUpsert(rows, u, t, e) ==
    IF HasKey(rows, u, t)
    THEN [i \in 1..Len(rows) |->
            IF rows[i].url = u /\ rows[i].timestamp = t
            THEN [rows[i] EXCEPT !.status = "failed", !.error = e, !.fetched_at = TRUE]
            ELSE rows[i]]
    ELSE Append(rows, [NewRow(u, t, NoHost, "failed") EXCEPT !.error = e, !.fetched_at = TRUE])

\* UPDATE urls SET status='failed', error=?, fetched_at=now WHERE url=? AND timestamp=?
markFailed(rows, u, t, e) ==
    [i \in 1..Len(rows) |->
        IF rows[i].url = u /\ rows[i].timestamp = t
        THEN [rows[i] EXCEPT !.status = "failed", !.error = e, !.fetched_at = TRUE]
        ELSE rows[i]]

\* SELECT status, COUNT(*) FROM urls GROUP BY status
getStats(rows, s) == Cardinality({i \in 1..Len(rows) : rows[i].status = s})

RowOf(rows, u, t) == CHOOSE i \in 1..Len(rows) : rows[i].url = u /\ rows[i].timestamp = t

StatusOf(rows, u, t) == IF HasKey(rows, u, t) THEN rows[RowOf(rows, u, t)].status ELSE "absent"

RowsWithKey(rows, u, t) == {i \in 1..Len(rows) : rows[i].url = u /\ rows[i].timestamp = t}


(***************************************************************************)
(* AssetExtractor: classification of a reference.                          *)
(***************************************************************************)
\* urlObj.hostname !== this.baseDomain; an unparseable URL is not external
isExternalUrl(url, baseDomain) ==
    IF ~Parses(url) THEN FALSE ELSE Host(url) # baseDomain

createAssetReference(url, type, baseDomain) ==
    [url |-> url, type |-> type, isExternal |-> isExternalUrl(url, baseDomain)]

MapSeq(s, Op(_)) == [i \in 1..Len(s) |-> Op(s[i])]

\* extractFromHtml: five passes over the document, each in document order;
\* nothing is removed when two passes emit the same element
extractFromHtml(html, baseDomain) ==
    LET HasRef(e) == e.url # NoUrl
        IsCss(e) == e.tag = "link" /\ e.rel = "stylesheet" /\ HasRef(e)
        IsJs(e) == e.tag = "script" /\ HasRef(e)
        IsImage(e) == e.tag \in {"img", "source"} /\ HasRef(e)
        IsMedia(e) == e.tag \in {"video", "audio"} /\ HasRef(e)
        IsMediaSource(e) == e.tag = "source" /\ HasRef(e) /\ e.parent \in {"video", "audio"}
        Css(e) == createAssetReference(e.url, "css", baseDomain)
        Js(e) == createAssetReference(e.url, "js", baseDomain)
        Image(e) == createAssetReference(e.url, "image", baseDomain)
        Media(e) == createAssetReference(e.url, e.tag, baseDomain)
        MediaSource(e) == createAssetReference(e.url, e.parent, baseDomain)
    IN MapSeq(SelectSeq(html, IsCss), Css)
       \o MapSeq(SelectSeq(html, IsJs), Js)
       \o MapSeq(SelectSeq(html, IsImage), Image)
       \o MapSeq(SelectSeq(html, IsMedia), Media)
       \o MapSeq(SelectSeq(html, IsMediaSource), MediaSource)

\* determineAssetType: by the extension of the reference
CssNames == {"s.css", "style.css"}
ImageNames == {"a.png", "b.png"}
FontNames == {"f.woff"}

determineAssetType(url) ==
    LET name == IF Pathname(url) = <<>> THEN "" ELSE Pathname(url)[Len(Pathname(url))]
    IN IF name \in CssNames THEN "css"
       ELSE IF name \in ImageNames THEN "image"
       ELSE IF name \in FontNames THEN "font"
       ELSE "other"

\* extractFromCss: the url(...) references in document order, each reference
\* once (seenUrls)
RECURSIVE extractFromCssSeen(_, _, _)
extractFromCssSeen(css, seenUrls, baseDomain) ==
    IF css = <<>> THEN <<>>
    ELSE LET e == Head(css)
         IN IF e.tag = "url()" /\ e.url \notin seenUrls
            THEN <<createAssetReference(e.url, determineAssetType(e.url), baseDomain)>>
                 \o extractFromCssSeen(Tail(css), seenUrls \cup {e.url}, baseDomain)
            ELSE extractFromCssSeen(Tail(css), seenUrls, baseDomain)

extractFromCss(css, baseDomain) == extractFromCssSeen(css, {}, baseDomain)

(***************************************************************************)
(* URLRewriter.                                                            *)
(***************************************************************************)
\* hostname === baseDomain || hostname === `www.${baseDomain}` is same domain
isExternalDomain(hostname, baseDomain) ==
    ~(hostname = baseDomain \/ hostname = <<"www.">> \o baseDomain)

\* a relative reference: no host, the segments of the local path
Relative(p) == Url(NoHost, p, "")

\* rewriteUrl: assets/external/{host}/{path} or assets/{path}
rewriteUrl(url, baseDomain) ==
    IF ~Parses(url) THEN url
    ELSE IF isExternalDomain(Host(url), baseDomain)
    THEN Relative(<<"assets", "external">> \o Host(url) \o Pathname(url))
    ELSE Relative(<<"assets">> \o Pathname(url))

\* rewriteUrlForCss: ../external/{host}/{path} or ../{path}
rewriteUrlForCss(url, baseDomain) ==
    IF ~Parses(url) THEN url
    ELSE IF isExternalDomain(Host(url), baseDomain)
    THEN Relative(<<"..", "external">> \o Host(url) \o Pathname(url))
    ELSE Relative(<<"..">> \o Pathname(url))

\* rewriteHtml: the references of stylesheet links, scripts, images, sources
\* and video/audio elements are rewritten, anchors are left alone
rewriteHtml(html, baseDomain) ==
    LET Rewritten(e) ==
            IF e.url # NoUrl
               /\ \/ e.tag = "link" /\ e.rel = "stylesheet"
                  \/ e.tag \in {"script", "img", "source", "video", "audio"}
            THEN [e EXCEPT !.url = rewriteUrl(e.url, baseDomain)]
            ELSE e
    IN MapSeq(html, Rewritten)

\* rewriteCss: every url(...) is rewritten
rewriteCss(css, baseDomain) ==
    LET Rewritten(e) ==
            IF e.tag = "url()" THEN [e EXCEPT !.url = rewriteUrlForCss(e.url, baseDomain)]
            ELSE e
    IN MapSeq(css, Rewritten)

(***************************************************************************)
(* The file system under outputDir: files maps a path to its inode,        *)
(* inodes maps an inode to the bytes it holds.  Hard links are paths that  *)
(* share an inode.                                                         *)
(***************************************************************************)
EmptyFn == [x \in {} |-> 0]

EmptyFs == [files |-> EmptyFn, inodes |-> EmptyFn]

Exists(fsys, p) == p \in DOMAIN fsys.files

ReadFile(fsys, p) == fsys.inodes[fsys.files[p]]

FreshIno(fsys) ==
    CHOOSE n \in 1..(Cardinality(DOMAIN fsys.inodes) + 1) :
        /\ n \notin DOMAIN fsys.inodes
        /\ \A m \in 1..(n - 1) : m \in DOMAIN fsys.inodes

\* fs.createWriteStream(p) / fs.writeFileSync(p): an existing file is
\* truncated and rewritten in place (same inode), a missing one is created
WriteFile(fsys, p, b) ==
    IF Exists(fsys, p)
    THEN [fsys EXCEPT !.inodes = [n \in DOMAIN fsys.inodes |->
                                    IF n = fsys.files[p] THEN b ELSE fsys.inodes[n]]]
    ELSE LET n == FreshIno(fsys)
         IN [files |-> [q \in DOMAIN fsys.files \cup {p} |->
                           IF q = p THEN n ELSE fsys.files[q]],
             inodes |-> [m \in DOMAIN fsys.inodes \cup {n} |->
                           IF m = n THEN b ELSE fsys.inodes[m]]]

\* fs.unlinkSync(p): the name goes, the inode goes with its last name
UnlinkSync(fsys, p) ==
    LET rest == DOMAIN fsys.files \ {p}
        live == {fsys.files[q] : q \in rest}
    IN [files |-> [q \in rest |-> fsys.files[q]],
        inodes |-> [m \in live |-> fsys.inodes[m]]]

\* fs.linkSync(src, dst) throws when src is missing or dst exists, and when
\* the file system refuses hard links (EXDEV across devices, EPERM)
LinkFails(fsys, src, dst) == env.linkFails \/ ~Exists(fsys, src) \/ Exists(fsys, dst)

LinkSync(fsys, src, dst) ==
    [fsys EXCEPT !.files = [q \in DOMAIN fsys.files \cup {dst} |->
                              IF q = dst THEN fsys.files[src] ELSE fsys.files[q]]]

(***************************************************************************)
(* DatabaseService: the table assets, in rowid order.                      *)
(***************************************************************************)
\* SHA-256 of the bytes (no collisions among the contents modelled)
Sha256(b) == <<"sha256", b>>

AssetRowsFor(rows, w) == {i \in 1..Len(rows) : rows[i].wayback_url = w}

HasAsset(rows, w) == AssetRowsFor(rows, w) # {}

\* SELECT * FROM assets WHERE wayback_url = ?  (requires HasAsset)
getAssetByWaybackUrl(rows, w) == rows[CHOOSE i \in AssetRowsFor(rows, w) : TRUE]

HashRowsFor(rows, h) == {i \in 1..Len(rows) : rows[i].content_hash = h}

HasHash(rows, h) == HashRowsFor(rows, h) # {}

\* SELECT * FROM assets WHERE content_hash = ? (.get(): the first row of the
\* index scan, the oldest row with that hash; requires HasHash)
getAssetByContentHash(rows, h) ==
    rows[CHOOSE i \in HashRowsFor(rows, h) : \A j \in HashRowsFor(rows, h) : i <= j]

\* INSERT INTO assets (...): throws on the UNIQUE(wayback_url) constraint
saveAssetThrows(rows, w) == HasAsset(rows, w)

\* a store whose INSERT is lost
saveAssetDropsRow(rows, a) == rows

saveAsset(rows, a) ==
    Append(rows, [wayback_url |-> a.waybackUrl, original_url |-> a.originalUrl,
                  content_hash |-> a.contentHash, file_path |-> a.filePath,
                  size_bytes |-> a.sizeBytes, download_count |-> 1,
                  domain |-> a.domain, timestamp |-> a.timestamp])

\* UPDATE assets SET download_count = download_count + 1 WHERE wayback_url = ?
incrementAssetDownloadCount(rows, w) ==
    [i \in 1..Len(rows) |->
        IF rows[i].wayback_url = w
        THEN [rows[i] EXCEPT !.download_count = @ + 1] ELSE rows[i]]

(***************************************************************************)
(* AssetFetcher.                                                           *)
(***************************************************************************)
\* options.assetDelayMs ?? 100
AssetDelayMs == 100
\* options.maxAssetSizeMB ?? 50
MaxAssetSizeMB == 50
BytesPerMB == 1048576
\* parseInt(headers['retry-after'] || '60')
DefaultRetryAfter == 60

\* asset.url.startsWith('https://web.archive.org/') ? asset.url
\*   : `https://web.archive.org/web/${timestamp}/${asset.url}`
WaybackUrl(u, t) == IF u.wrap # "" THEN u ELSE Wrapped(t, u)

\* getAssetPath (below outputDir): {domain}/{ts}/assets/[external/{host}/]{path}
getAssetPath(asset, domain, timestamp) ==
    IF asset.isExternal
    THEN domain \o <<timestamp, "assets", "external">> \o Host(asset.url) \o Pathname(asset.url)
    ELSE domain \o <<timestamp, "assets">> \o Pathname(asset.url)

\* upstream answers
Ok(b, len) == [status |-> 200, bytes |-> b, length |-> len, retryAfter |-> ""]
Err(st) == [status |-> st, bytes |-> <<>>, length |-> 0, retryAfter |-> ""]
RateLimited(ra) == [status |-> 429, bytes |-> <<>>, length |-> 0, retryAfter |-> ra]

RetryAfterSeconds(resp) ==
    IF resp.retryAfter = "" THEN DefaultRetryAfter
    ELSE IF resp.retryAfter = "5" THEN 5 ELSE DefaultRetryAfter

Skipped(reason, url, w, size) ==
    [reason |-> reason, url |-> url, waybackUrl |-> w, sizeBytes |-> size]

NoSkip == Skipped("none", NoUrl, NoUrl, 0)

\* error codes of exceptions that are not HTTP answers
InvalidUrl == 0 - 1
SqliteConstraint == 0 - 2

\* formatError
formatError(code) ==
    CASE code = 401 -> "401 Unauthorized - auth cookies may be expired"
      [] code = 403 -> "403 Forbidden - access denied"
      [] code = 404 -> "404 Not Found in Wayback Machine"
      [] code = 429 -> "429 Rate Limited"
      [] code = 500 -> "500 Server Error"
      [] code = 503 -> "503 Service Unavailable"
      [] code = InvalidUrl -> "Invalid URL"
      [] code = SqliteConstraint -> "UNIQUE constraint failed: assets.wayback_url"
      [] OTHER -> "status"

\* what fetchSingleAsset hands back, or that it threw; fs and rows as it
\* leaves them; get: whether it sent a request
Outcome(threw, success, skipped, cacheHit, contentDuplicate, size, err, fsys, rows, get) ==
    [threw |-> threw, success |-> success, skipped |-> skipped, cacheHit |-> cacheHit,
     contentDuplicate |-> contentDuplicate, sizeBytes |-> size, error |-> err,
     fs |-> fsys, rows |-> rows, get |-> get]

\* the row always records the path just written
StoredFilePathOwn(has, existing, assetPath) == assetPath

\* filePath: existingAsset?.file_path || assetPath
StoredFilePath(has, existing, assetPath) == IF has THEN existing.file_path ELSE assetPath

\* STEP 2 and 3 of fetchSingleAsset: the download
DownloadAsset(asset, domain, timestamp, resp, fsys, rows, db) ==
    LET w == WaybackUrl(asset.url, timestamp)
        assetPath == getAssetPath(asset, domain, timestamp)
    IN IF resp.status = 404
       THEN Outcome(FALSE, FALSE,
                    Skipped("fetch_error", asset.url, w, 0),
                    FALSE, FALSE, 0, 0, fsys, rows, TRUE)
       ELSE IF resp.status # 200
       THEN Outcome(TRUE, FALSE, NoSkip, FALSE, FALSE, 0, resp.status, fsys, rows, TRUE)
       ELSE IF resp.length > MaxAssetSizeMB * BytesPerMB
       THEN Outcome(FALSE, FALSE,
                    Skipped("size_limit", asset.url, w, resp.length),
                    FALSE, FALSE, 0, 0, fsys, rows, TRUE)
       ELSE IF ~Parses(asset.url)
       THEN \* new URL(asset.url) throws in getAssetPath
            Outcome(TRUE, FALSE, NoSkip, FALSE, FALSE, 0, InvalidUrl, fsys, rows, TRUE)
       ELSE LET fs1 == WriteFile(fsys, assetPath, resp.bytes)
            IN IF ~db
               THEN Outcome(FALSE, TRUE, NoSkip, FALSE, FALSE, resp.length, 0, fs1, rows, TRUE)
               ELSE LET h == Sha256(ReadFile(fs1, assetPath))
                        has == HasHash(rows, h)
                        existing == getAssetByContentHash(rows, h)
                        dup == has /\ existing.file_path # assetPath
                        fs2 == IF ~dup THEN fs1
                               ELSE LET u1 == UnlinkSync(fs1, assetPath)
                                    IN IF LinkFails(u1, existing.file_path, assetPath)
                                       THEN u1
                                       ELSE LinkSync(u1, existing.file_path, assetPath)
                        row == [waybackUrl |-> w, originalUrl |-> asset.url, contentHash |-> h,
                                filePath |-> StoredFilePath(has, existing, assetPath),
                                sizeBytes |-> resp.length, domain |-> domain,
                                timestamp |-> timestamp]
                    IN IF saveAssetThrows(rows, w)
                       THEN Outcome(TRUE, FALSE, NoSkip, FALSE, FALSE, 0, SqliteConstraint,
                                    fs2, rows, TRUE)
                       ELSE Outcome(FALSE, TRUE, NoSkip, FALSE, dup, resp.length, 0,
                                    fs2, saveAsset(rows, row), TRUE)

\* fetchSingleAsset: STEP 1 (cache check by Wayback URL), then the download
fetchSingleAsset(asset, domain, timestamp, resp, fsys, rows, db) ==
    LET w == WaybackUrl(asset.url, timestamp)
        assetPath == getAssetPath(asset, domain, timestamp)
        cached == getAssetByWaybackUrl(rows, w)
    IN IF db /\ HasAsset(rows, w)
       THEN IF ~Parses(asset.url)
            THEN Outcome(TRUE, FALSE, NoSkip, FALSE, FALSE, 0, InvalidUrl, fsys, rows, FALSE)
            ELSE IF ~Exists(fsys, assetPath) /\ LinkFails(fsys, cached.file_path, assetPath)
            THEN \* the hard link failed: fall through to the download
                 DownloadAsset(asset, domain, timestamp, resp, fsys, rows, db)
            ELSE Outcome(FALSE, FALSE, NoSkip, TRUE, FALSE, cached.size_bytes, 0,
                         IF Exists(fsys, assetPath) THEN fsys
                         ELSE LinkSync(fsys, cached.file_path, assetPath),
                         incrementAssetDownloadCount(rows, w), FALSE)
       ELSE DownloadAsset(asset, domain, timestamp, resp, fsys, rows, db)

EmptyResult ==
    [fetched |-> <<>>, skipped |-> <<>>, errors |-> <<>>,
     cacheHits |-> 0, contentDuplicates |-> 0, bandwidthSavedBytes |-> 0]

\* a loop whose catch records nothing for a 429
ClassifyDropsRateLimited(result, asset, o) ==
    IF o.threw
    THEN IF o.error = 429 THEN result
         ELSE [result EXCEPT !.errors = Append(@, [asset |-> asset, error |-> formatError(o.error)])]
    ELSE IF o.success
    THEN [result EXCEPT !.fetched = Append(@, asset)]
    ELSE IF o.skipped # NoSkip
    THEN [result EXCEPT !.skipped = Append(@, o.skipped)]
    ELSE IF o.cacheHit
    THEN [result EXCEPT !.cacheHits = @ + 1, !.bandwidthSavedBytes = @ + o.sizeBytes]
    ELSE result

\* the body of fetchAssets' loop after fetchSingleAsset returned or threw
Classify(result, asset, o) ==
    IF o.threw
    THEN [result EXCEPT !.errors = Append(@, [asset |-> asset, error |-> formatError(o.error)])]
    ELSE IF o.success
    THEN [result EXCEPT !.fetched = Append(@, asset)]
    ELSE IF o.skipped # NoSkip
    THEN [result EXCEPT !.skipped = Append(@, o.skipped)]
    ELSE IF o.cacheHit
    THEN [result EXCEPT !.cacheHits = @ + 1, !.bandwidthSavedBytes = @ + o.sizeBytes]
    ELSE IF o.contentDuplicate
    THEN [result EXCEPT !.contentDuplicates = @ + 1, !.fetched = Append(@, asset)]
    ELSE result

\* what one iteration of the loop does besides: the delay before every asset
\* but the first, the request, the pause after a 429
IterationTrace(i, w, o) ==
    (IF i > 1 THEN << <<"delay", AssetDelayMs>> >> ELSE <<>>)
    \o (IF o.get THEN << <<"get", w>> >> ELSE <<>>)

\* err.response?.status === 429: delay(retryAfter * 1000)
PauseTrace(o, resp) ==
    IF o.threw /\ o.error = 429
    THEN << <<"pause", RetryAfterSeconds(resp)>> >> ELSE <<>>

(***************************************************************************)
(* WaybackCrawler: its pure parts.                                         *)
(***************************************************************************)
\* normalizeUrl: 'http' + the part after the last '/http' of an archive URL
normalizeUrl(u) == IF u.wrap # "" THEN [u EXCEPT !.wrap = ""] ELSE u

\* the hostname '' of a URL that parses without an authority (mailto:,
\* javascript:, tel:)
EmptyHost == <<"">>

\* isInternalUrl: [domain, `www.${domain}`, ''].includes(hostname)
isInternalUrl(u, domain) ==
    LET n == normalizeUrl(u)
    IN Parses(n) /\ Host(n) \in {domain, <<"www.">> \o domain, EmptyHost}

\* extractLinks: the Set of normalized internal references of a, link, img
\* and script elements, in insertion (document) order
extractLinks(html, domain) ==
    LET IsLink(e) == e.tag \in {"a", "link", "img", "script"} /\ e.url # NoUrl
        Normalized(e) == normalizeUrl(e.url)
        Internal(u) == isInternalUrl(u, domain)
        all == SelectSeq(MapSeq(SelectSeq(html, IsLink), Normalized), Internal)
        first == {i \in 1..Len(all) : \A j \in 1..(i - 1) : all[j] # all[i]}
        Nth(k) == CHOOSE i \in first : Cardinality({j \in first : j <= i}) = k
    IN [k \in 1..Cardinality(first) |-> all[Nth(k)]]

\* pathPart.match(/\.(html|htm)$/) on the names of the model
HtmlNames == {"index.html", "about.html", "missing.html"}

\* the path below {domain}/{timestamp} of the page of a pathname
PagePathPart(p) ==
    IF p = <<>> THEN <<"index.html">>
    ELSE IF p[Len(p)] \in HtmlNames THEN p
    ELSE p \o <<"index.html">>

\* getFileNameFromUrl (the URL is not normalized here)
getFileNameFromUrl(u) == IF ~Parses(u) THEN <<"index.html">> ELSE PagePathPart(Pathname(u))

\* savePage: the path written, below outputDir
savePagePath(u, timestamp, domain) ==
    domain \o <<timestamp>> \o PagePathPart(Pathname(normalizeUrl(u)))

\* getAssetLocalPath: external is !hostname.endsWith(domain); '' when the URL
\* does not parse
getAssetLocalPath(u, domain, timestamp) ==
    IF ~Parses(u) THEN NoPath
    ELSE IF ~EndsWith(Host(u), domain)
    THEN domain \o <<timestamp, "assets", "external">> \o Host(u) \o Pathname(u)
    ELSE domain \o <<timestamp, "assets">> \o Pathname(u)

\* rewriteCssFile
rewriteCssFile(fsys, cssUrl, domain, timestamp) ==
    LET cssPath == getAssetLocalPath(cssUrl, domain, timestamp)
    IN IF ~Exists(fsys, cssPath) THEN fsys
       ELSE WriteFile(fsys, cssPath, rewriteCss(ReadFile(fsys, cssPath), domain))

\* for (const asset of fetchResult.fetched.filter(a => a.type === 'css'))
RECURSIVE RewriteCssFiles(_, _, _, _)
RewriteCssFiles(fsys, fetched, domain, timestamp) ==
    IF fetched = <<>> THEN fsys
    ELSE RewriteCssFiles(IF Head(fetched).type = "css"
                         THEN rewriteCssFile(fsys, Head(fetched).url, domain, timestamp)
                         ELSE fsys,
                         Tail(fetched), domain, timestamp)

\* if (fetchResult.skipped.length > 1): a single skipped asset is not logged
SaveSkippedNeededMany(result) == Len(result.skipped) > 1

\* if (fetchResult.skipped.length > 0)
SaveSkippedNeeded(result) == Len(result.skipped) > 0

SkippedAssetsPath(domain, timestamp) == domain \o <<timestamp, "skipped_assets.json">>

\* JSON.stringify({domain, timestamp, skipped})
SkippedJson(skipped, domain, timestamp) ==
    << Node("snapshot", timestamp, Url(domain, <<>>, ""), "", NoUrl, 0) >>
    \o [i \in 1..Len(skipped) |->
          Node("skipped", skipped[i].reason, skipped[i].url, "",
               skipped[i].waybackUrl, skipped[i].sizeBytes)]

\* saveSkippedAssets: the log of this call replaces the file
saveSkippedAssets(fsys, skipped, domain, timestamp) ==
    WriteFile(fsys, SkippedAssetsPath(domain, timestamp), SkippedJson(skipped, domain, timestamp))

ManifestPath(domain, timestamp) == domain \o <<timestamp, "manifest.json">>

AssetTypes == <<"css", "js", "image", "font", "video", "audio", "other">>

\* the manifest: pages, assets.total, assets.byType, assets.externalDomains,
\* skippedCount (crawledAt, the clock, is left out)
ManifestJson(domain, timestamp, result, fileName) ==
    LET fetched == result.fetched
        OfType(ty) == Cardinality({i \in 1..Len(fetched) : fetched[i].type = ty})
        Present(ty) == OfType(ty) > 0
        ByType(ty) == Node("byType", ty, NoUrl, "", NoUrl, OfType(ty))
        IsExt(a) == a.isExternal /\ Parses(a.url)
        ext == SelectSeq(fetched, IsExt)
        firstExt == {i \in 1..Len(ext) : \A j \in 1..(i - 1) : Host(ext[j].url) # Host(ext[i].url)}
        ExtNode(a) == Node("externalDomain", "", Url(Host(a.url), <<>>, ""), "", NoUrl, 0)
        IsFirst(a) == \E i \in firstExt : ext[i] = a
    IN << Node("manifest", timestamp, Url(domain, <<>>, ""), "", NoUrl, 0),
          Node("page", "", Relative(fileName), "", NoUrl, 0),
          Node("total", "", NoUrl, "", NoUrl, Len(fetched)) >>
       \o MapSeq(SelectSeq(AssetTypes, Present), ByType)
       \o MapSeq(SelectSeq(ext, IsFirst), ExtNode)
       \o << Node("skippedCount", "", NoUrl, "", NoUrl, Len(result.skipped)) >>

\* a crawler that writes no manifest
saveManifestNever(fsys, domain, timestamp, result, fileName) == fsys

\* saveManifest
saveManifest(fsys, domain, timestamp, result, fileName) ==
    WriteFile(fsys, ManifestPath(domain, timestamp),
              ManifestJson(domain, timestamp, result, fileName))

(***************************************************************************)
(* The off-peak scheduler of WaybackCrawler.                               *)
(***************************************************************************)
HoursPerDay == 24
MinutesPerHour == 60
MinutesPerDay == HoursPerDay * MinutesPerHour

HM(h, m) == [hour |-> h, minute |-> m]

\* hour * 60 + minute
Minutes(t) == t.hour * MinutesPerHour + t.minute

\* the constructor's defaults: scheduler off, window 22:00 - 06:00
DefaultOptions ==
    [useOffPeakScheduler |-> FALSE, offPeakStart |-> HM(22, 0), offPeakEnd |-> HM(6, 0)]

\* the command line: useOffPeakScheduler is options.scheduler && options.delay
\* (--no-scheduler clears scheduler, --no-delay clears delay)
CliOptions(scheduler, delay, start, end) ==
    [useOffPeakScheduler |-> scheduler /\ delay, offPeakStart |-> start, offPeakEnd |-> end]

\* a scheduler that never takes the window to span midnight
isOffPeakSameDay(o, now) ==
    now >= Minutes(o.offPeakStart) /\ now <= Minutes(o.offPeakEnd)

\* isOffPeak at the local time now
isOffPeak(o, now) ==
    LET startMinutes == Minutes(o.offPeakStart)
        endMinutes == Minutes(o.offPeakEnd)
    IN IF startMinutes > endMinutes
       THEN now >= startMinutes \/ now <= endMinutes
       ELSE now >= startMinutes /\ now <= endMinutes

\* a scheduler that does not look at useOffPeakScheduler
waitMinutesAlways(o, now) ==
    IF isOffPeak(o, now) THEN 0
    ELSE IF now < Minutes(o.offPeakStart)
    THEN Minutes(o.offPeakStart) - now
    ELSE MinutesPerDay - now + Minutes(o.offPeakStart)

\* waitForOffPeak: the minutes it sleeps when called at the local time now
waitMinutes(o, now) ==
    IF ~o.useOffPeakScheduler THEN 0
    ELSE IF isOffPeak(o, now) THEN 0
    ELSE IF now < Minutes(o.offPeakStart)
    THEN Minutes(o.offPeakStart) - now
    ELSE MinutesPerDay - now + Minutes(o.offPeakStart)

\* the local time at which waitForOffPeak returns
waitForOffPeak(o, now) == (now + waitMinutes(o, now)) % MinutesPerDay

Noon == Minutes(HM(12, 0))

\* an environment that makes no system call fail
QuietEnv == [linkFails |-> FALSE]

SeqsUpTo(S, n) == UNION {[1..k -> S] : k \in 1..n}

NoCall ==
    [assets |-> <<>>, domain |-> NoHost, timestamp |-> NULL, i |-> 1,
     result |-> EmptyResult, trace |-> <<>>, outcomes |-> <<>>]

NoPage == [content |-> <<>>, processed |-> <<>>, localPath |-> NoPath, links |-> <<>>, line |-> 1]

NoHist == [runs |-> 0, crashes |-> 0, faults |-> 0, fetches |-> 0, ops |-> 0,
           atHalt |-> <<>>, pickedSince |-> {}, fetchedSince |-> {},
           lastOp |-> <<"none">>, added |-> {}]

\* per archive URL: fetchSingleAsset calls for it (req), requests sent (get),
\* requests that ended with the asset stored (ok)
NoCount == [req |-> 0, get |-> 0, ok |-> 0]

Count(g, w) == IF w \in DOMAIN g THEN g[w] ELSE NoCount

CountUp(g, w, o) ==
    [x \in DOMAIN g \cup {w} |->
        IF x = w
        THEN [req |-> Count(g, w).req + 1,
              get |-> Count(g, w).get + (IF o.get THEN 1 ELSE 0),
              ok |-> Count(g, w).ok + (IF o.get /\ o.success THEN 1 ELSE 0)]
        ELSE g[x]]

\* the request of an iteration whose write stream is now open
CountSent(g, w) ==
    [x \in DOMAIN g \cup {w} |->
        IF x = w THEN [Count(g, w) EXCEPT !.req = @ + 1, !.get = @ + 1] ELSE g[x]]

\* the end of an iteration whose request was counted when the stream opened
CountStored(g, w, o) ==
    [x \in DOMAIN g \cup {w} |->
        IF x = w THEN [Count(g, w) EXCEPT !.ok = @ + (IF o.success THEN 1 ELSE 0)] ELSE g[x]]

\* history of one loop iteration: the asset, the answer, what became of it
Observed(asset, w, resp, o, fsBefore) ==
    [asset |-> asset, w |-> w, status |-> IF o.get THEN resp.status ELSE 0,
     length |-> IF o.get THEN resp.length ELSE 0,
     threw |-> o.threw, success |-> o.success, skipped |-> o.skipped.reason,
     cacheHit |-> o.cacheHit, contentDuplicate |-> o.contentDuplicate,
     wrote |-> o.fs # fsBefore, get |-> o.get]

(***************************************************************************)
(* fetchAssets: one iteration of its loop (shared by every caller).        *)
(***************************************************************************)
\* a loop that goes through the assets from the last to the first
NextAssetReversed(assets, i) == assets[Len(assets) + 1 - i]

\* const asset = assets[i]
NextAsset(assets, i) == assets[i]

\* one iteration: fetchSingleAsset for the next asset and what the loop does
\* with its result; streaming says that the iteration is past STEP 1 with
\* the write stream open, so what is left of it is the download
FetchIteration(streaming) ==
    /\ call.i <= Len(call.assets)
    /\ LET asset == NextAsset(call.assets, call.i)
           w == WaybackUrl(asset.url, call.timestamp)
       IN \E resp \in upstream[w] :
            LET o == IF streaming
                     THEN DownloadAsset(asset, call.domain, call.timestamp, resp,
                                        fs, assetRows, dbOn)
                     ELSE fetchSingleAsset(asset, call.domain, call.timestamp, resp,
                                           fs, assetRows, dbOn)
            IN /\ call' = [call EXCEPT
                             !.i = @ + 1,
                             !.result = Classify(@, asset, o),
                             !.trace = @ \o IterationTrace(call.i, w, o) \o PauseTrace(o, resp),
                             !.outcomes = Append(@, Observed(asset, w, resp, o, fs))]
               /\ fs' = o.fs
               /\ assetRows' = o.rows
               /\ gets' = IF streaming THEN CountStored(gets, w, o) ELSE CountUp(gets, w, o)
    /\ UNCHANGED <<urls, cur, page, dbOn, upstream, hist, ret, opts, clock, env>>

FetchNext ==
    /\ pc = "fetching"
    /\ FetchIteration(FALSE)
    /\ UNCHANGED pc

(***************************************************************************)
(* The fetcher with the asset store enabled, called as the documentation   *)
(* shows: new AssetFetcher(options, logger, db); fetchAssets(assets,       *)
(* domain, timestamp).                                                     *)
(***************************************************************************)
ImgA == Url(Dom, <<"a.png">>, "")
ImgAq == Url(Dom, <<"a.png">>, "v=2")
ImgB == Url(OtherHost, <<"b.png">>, "")
HarnessUrls == {ImgA, ImgAq, ImgB}

HarnessRefs == {createAssetReference(u, "image", Dom) : u \in HarnessUrls}

OverLimit == MaxAssetSizeMB * BytesPerMB + 1

FetchResponses ==
    {Ok(Bytes("X"), 500), Ok(Bytes("Y"), 500), Ok(Bytes("X"), OverLimit),
     Err(404), Err(403), RateLimited("5")}

ArchiveUrls == {WaybackUrl(u, t) : u \in HarnessUrls, t \in Timestamps}

InitFetch ==
    /\ urls = <<>>
    /\ pc = "idle"
    /\ cur = NoRecord
    /\ page = NoPage
    /\ call = NoCall
    /\ dbOn = TRUE
    /\ assetRows = <<>>
    /\ fs = EmptyFs
    /\ upstream = [w \in ArchiveUrls |-> FetchResponses]
    /\ gets = EmptyFn
    /\ hist = NoHist
    /\ ret = NoRecord
    /\ opts = DefaultOptions
    /\ clock = Noon
    /\ env = QuietEnv

CallFetchAssets ==
    /\ pc = "idle"
    /\ hist.fetches < MaxFetches
    /\ \E assets \in SeqsUpTo(HarnessRefs, MaxFetches - hist.fetches), t \in Timestamps :
         /\ call' = [NoCall EXCEPT !.assets = assets, !.domain = Dom, !.timestamp = t]
         /\ hist' = [hist EXCEPT !.fetches = @ + Len(assets)]
    /\ pc' = "fetching"
    /\ UNCHANGED <<urls, cur, page, dbOn, assetRows, fs, upstream, gets, ret, opts, clock, env>>

ReturnFetchAssets ==
    /\ pc = "fetching"
    /\ call.i > Len(call.assets)
    /\ pc' = "idle"
    /\ call' = NoCall
    /\ UNCHANGED <<urls, cur, page, dbOn, assetRows, fs, upstream, gets, hist, ret, opts, clock, env>>

NextFetch == CallFetchAssets \/ FetchNext \/ ReturnFetchAssets

SpecFetch == InitFetch /\ [][NextFetch]_vars

\* the assets of the call that fetchSingleAsset threw for
Thrown == {i \in 1..Len(call.outcomes) : call.outcomes[i].threw}

\* C17: while fetchAssets runs and when it returns, every asset it has gone
\* through is in exactly one of fetched, skipped, errors and the cache-hit
\* count, and every asset whose fetch threw, a 429 included, is in errors.
C17_EveryAssetAccounted ==
    pc = "fetching" =>
        /\ Len(call.result.fetched) + Len(call.result.skipped)
             + Len(call.result.errors) + call.result.cacheHits = call.i - 1
        /\ Len(call.outcomes) = call.i - 1
        /\ Len(call.result.errors) = Cardinality(Thrown)
        /\ \A i \in Thrown :
             \E n \in 1..Len(call.result.errors) :
                 call.result.errors[n].asset = call.outcomes[i].asset

\* C17 witness: fetchAssets is about to return a result for a call one of
\* whose assets was answered with 429 and another served from the cache
C17_CallWithRateLimitAndCacheHit ==
    /\ pc = "fetching"
    /\ call.i > Len(call.assets)
    /\ \E i \in 1..Len(call.outcomes) : call.outcomes[i].status = 429
    /\ \E i \in 1..Len(call.outcomes) : call.outcomes[i].cacheHit

\* C18: every pacing delay of a call is followed at once by a request to the
\* archive: no delay is spent on an asset that is served without a request.
C18_DelayOnlyBeforeDownload ==
    pc = "fetching" =>
        \A n \in 1..Len(call.trace) :
            call.trace[n][1] = "delay"
              => /\ n < Len(call.trace)
                 /\ call.trace[n + 1][1] = "get"

(***************************************************************************)
(* Properties of the fetcher with the store enabled (SpecFetch).           *)
(***************************************************************************)
\* C5: every pause after a 429 is followed, in the same call, by a second
\* request for the asset whose request was answered 429.
C5_PauseThenRetry ==
    \A k \in 1..Len(call.trace) :
        call.trace[k][1] = "pause"
          => /\ k < Len(call.trace)
             /\ call.trace[k + 1][1] = "get"
             /\ call.trace[k + 1][2] = call.trace[k - 1][2]

\* C6: the contentDuplicates counter of the result equals the number of
\* assets of the call that fetchSingleAsset reported as content duplicates.
C6_ContentDuplicatesCounted ==
    call.result.contentDuplicates
      = Cardinality({i \in 1..Len(call.outcomes) : call.outcomes[i].contentDuplicate})

\* the step stored an asset whose hash an older row with another archive URL has
StoresSecondOfHash ==
    /\ Len(assetRows') = Len(assetRows) + 1
    /\ HasHash(assetRows, assetRows'[Len(assetRows')].content_hash)

\* C8: when an asset is stored whose bytes hash like those of a row stored
\* before under another archive URL, both URLs were downloaded exactly once,
\* the new row's file_path is the first-stored row's path, and the new
\* asset's target path and that path are names of one file.
C8_ContentHashDedup ==
    [][StoresSecondOfHash =>
         LET new == assetRows'[Len(assetRows')]
             first == getAssetByContentHash(assetRows, new.content_hash)
             target == getAssetPath(call.assets[call.i], call.domain, call.timestamp)
         IN /\ new.wayback_url # first.wayback_url
            /\ gets'[new.wayback_url].ok = 1
            /\ gets'[first.wayback_url].ok = 1
            /\ new.file_path = first.file_path
            /\ Exists(fs', target)
            /\ Exists(fs', first.file_path)
            /\ fs'.files[target] = fs'.files[first.file_path]]_vars

\* C8 witness: two rows with different archive URLs and one hash, the second
\* stored by the last request, which was for another target path
C8_TwoUrlsOneFile ==
    /\ Len(call.outcomes) >= 1
    /\ call.outcomes[Len(call.outcomes)].contentDuplicate
    /\ \E i, j \in 1..Len(assetRows) :
         /\ i < j
         /\ assetRows[i].content_hash = assetRows[j].content_hash
         /\ assetRows[j].wayback_url = call.outcomes[Len(call.outcomes)].w

(***************************************************************************)
(* The queue on its own: any sequence of CrawlerDB calls.                  *)
(***************************************************************************)
PageRoot == Url(Dom, <<>>, "")
PageAbout == Url(Dom, <<"about.html">>, "")

QueueUrls == {PageRoot, PageAbout}
QueuePaths == {Dom \o <<TS1, "index.html">>, Dom \o <<TS2, "about.html">>}
QueueErrors == {"Failed to fetch"}

InitQueue ==
    /\ urls = <<>>
    /\ pc = "queue"
    /\ cur = NoRecord
    /\ page = NoPage
    /\ call = NoCall
    /\ dbOn = FALSE
    /\ assetRows = <<>>
    /\ fs = EmptyFs
    /\ upstream = EmptyFn
    /\ gets = EmptyFn
    /\ hist = NoHist
    /\ ret = NoRecord
    /\ opts = DefaultOptions
    /\ clock = Noon
    /\ env = QuietEnv

QueueFrame == UNCHANGED <<pc, cur, page, call, dbOn, assetRows, fs, upstream, gets, opts, clock, env>>

Did(op, u, t) == [hist EXCEPT !.ops = @ + 1, !.lastOp = <<op, u, t>>,
                              !.added = IF op = "add" THEN @ \cup {<<u, t>>} ELSE @]

QAdd ==
    /\ pc = "queue" /\ hist.ops < MaxQueueOps
    /\ \E u \in QueueUrls, t \in Timestamps :
         /\ urls' = addUrl(urls, u, t, StripWww(Host(u)), "pending")
         /\ hist' = Did("add", u, t)
    /\ ret' = NoRecord
    /\ QueueFrame

QGetNext ==
    /\ pc = "queue" /\ hist.ops < MaxQueueOps
    /\ IF NextCandidates(urls) = {}
       THEN ret' = NoRecord
       ELSE \E i \in NextCandidates(urls) : ret' = UrlRecord(urls[i])
    /\ hist' = Did("next", ret'.url, ret'.timestamp)
    /\ UNCHANGED urls
    /\ QueueFrame

QMarkCompleted ==
    /\ pc = "queue" /\ hist.ops < MaxQueueOps
    /\ \E u \in QueueUrls, t \in Timestamps, lp \in QueuePaths :
         /\ urls' = markCompleted(urls, u, t, lp)
         /\ hist' = Did("completed", u, t)
    /\ ret' = NoRecord
    /\ QueueFrame

QMarkFailed ==
    /\ pc = "queue" /\ hist.ops < MaxQueueOps
    /\ \E u \in QueueUrls, t \in Timestamps, e \in QueueErrors :
         /\ urls' = markFailed(urls, u, t, e)
         /\ hist' = Did("failed", u, t)
    /\ ret' = NoRecord
    /\ QueueFrame

NextQueue == QAdd \/ QGetNext \/ QMarkCompleted \/ QMarkFailed

SpecQueue == InitQueue /\ [][NextQueue]_vars

(***************************************************************************)
(* Properties of the queue (SpecQueue).                                    *)
(***************************************************************************)
\* every key that was added has exactly one row, whatever was called since
OneRowPerAddedKey ==
    \A u \in QueueUrls, t \in Timestamps :
        Cardinality(RowsWithKey(urls, u, t)) = (IF <<u, t>> \in hist.added THEN 1 ELSE 0)

\* an addUrl on an existing key changes nothing; on a new key (be its url in
\* the table under another timestamp or not) it appends one pending row
AddStep ==
    (hist'.ops = hist.ops + 1 /\ hist'.lastOp[1] = "add") =>
        LET u == hist'.lastOp[2]
            t == hist'.lastOp[3]
        IN IF HasKey(urls, u, t)
           THEN urls' = urls
           ELSE /\ Len(urls') = Len(urls) + 1
                /\ SubSeq(urls', 1, Len(urls)) = urls
                /\ urls'[Len(urls')].url = u
                /\ urls'[Len(urls')].timestamp = t
                /\ urls'[Len(urls')].status = "pending"

\* C3: addUrl is idempotent: one row per added key after any sequence of
\* operations, an addUrl on an existing key leaves its row and every other
\* row as they were, and a url under another timestamp is a row of its own.
C3_AddIdempotent == []OneRowPerAddedKey /\ [][AddStep]_vars

\* C3 witness: addUrl was just called for a key whose row is completed,
\* while the same url is queued under another timestamp as well
C3_AddOnCompletedKey ==
    /\ hist.lastOp[1] = "add"
    /\ StatusOf(urls, hist.lastOp[2], hist.lastOp[3]) = "completed"
    /\ \E t \in Timestamps : t # hist.lastOp[3] /\ HasKey(urls, hist.lastOp[2], t)

(***************************************************************************)
(* The crawler: run() over an archived site, killed and restarted.         *)
(***************************************************************************)
PageMissing == Url(Dom, <<"missing.html">>, "")
PageElsewhere == Url(OtherHost, <<"index.html">>, "")
Css == Url(Dom, <<"s.css">>, "")
Font == Url(Dom, <<"f.woff">>, "")
Big == Url(Dom, <<"big.mp4">>, "")
\* mailto:info@ex.com
Mailto == Url(EmptyHost, <<"info@ex.com">>, "")
PageSub == Url(SubHost, <<"index.html">>, "")

RootHtml ==
    << Elem("a", "", PageAbout, ""),
       Elem("a", "", PageMissing, ""),
       Elem("a", "", PageElsewhere, ""),
       Elem("a", "", PageSub, ""),
       Elem("a", "", Mailto, ""),
       Elem("link", "stylesheet", Css, ""),
       Elem("img", "", ImgA, ""),
       Elem("video", "", Big, "") >>

AboutHtml ==
    << Elem("a", "", Wrapped(TS1, PageRoot), ""),
       Elem("img", "", ImgA, ""),
       Elem("img", "", ImgB, "") >>

CssBody == << CssRef(Font) >>

\* the selections file: lines "timestamp|url"
Selections == << [timestamp |-> TS1, url |-> PageRoot] >>

SiteUrls ==
    {PageRoot, PageAbout, PageMissing, PageElsewhere, PageSub, Mailto, Css, Font, Big, ImgA, ImgB}

\* what the archive holds; the answers left open are fixed per behaviour
Archives ==
    {[u \in SiteUrls |->
        CASE u = PageRoot -> Ok(RootHtml, 900)
          [] u = PageAbout -> about
          [] u = Css -> Ok(CssBody, 300)
          [] u = ImgA -> Ok(Bytes("X"), 500)
          [] u = ImgB -> Ok(Bytes("X"), 500)
          [] u = Big -> big
          [] OTHER -> Err(404)] :
     about \in {Ok(AboutHtml, 700), Err(503)},
     big \in {Ok(Bytes("V"), OverLimit), Ok(Bytes("V"), 500)}}

Init ==
    /\ urls = <<>>
    /\ pc = "stopped"
    /\ cur = NoRecord
    /\ page = NoPage
    /\ call = NoCall
    /\ dbOn = FALSE
    /\ assetRows = <<>>
    /\ fs = EmptyFs
    /\ \E site \in Archives :
         upstream = [w \in {Wrapped(TS1, u) : u \in SiteUrls} |-> {site[normalizeUrl(w)]}]
    /\ gets = EmptyFn
    /\ hist = NoHist
    /\ ret = NoRecord
    /\ opts = DefaultOptions
    /\ clock = Noon
    /\ env = QuietEnv

Key(r) == <<r.url, r.timestamp>>

Called(op, u, t) == [hist EXCEPT !.lastOp = <<op, u, t>>]

\* run(): a process starts
Start ==
    /\ pc \in {"stopped", "done", "aborted"}
    /\ hist.runs < MaxRuns
    /\ pc' = "loading"
    /\ page' = NoPage
    /\ hist' = [hist EXCEPT !.runs = @ + 1]
    /\ UNCHANGED <<urls, cur, call, dbOn, assetRows, fs, upstream, gets, ret, opts, clock, env>>

\* loadSnapshotList: one line of the file
LoadLine ==
    /\ pc = "loading"
    /\ LET line == Selections[page.line]
       IN /\ urls' = IF Parses(line.url)
                     THEN addUrl(urls, line.url, line.timestamp, StripWww(Host(line.url)),
                                 "pending")
                     ELSE urls
          /\ hist' = Called("add", line.url, line.timestamp)
    /\ page' = [page EXCEPT !.line = @ + 1]
    /\ pc' = IF page.line = Len(Selections) THEN "loop" ELSE "loading"
    /\ UNCHANGED <<cur, call, dbOn, assetRows, fs, upstream, gets, ret, opts, clock, env>>

\* crawlOne: getNextUrl; no row ends the run, with a row waitForOffPeak is
\* awaited before the page is fetched
GetNext ==
    /\ pc = "loop"
    /\ IF NextCandidates(urls) = {}
       THEN /\ pc' = "done"
            /\ UNCHANGED <<cur, hist, clock>>
       ELSE \E i \in NextCandidates(urls) :
            /\ cur' = UrlRecord(urls[i])
            /\ clock' = waitForOffPeak(opts, clock)
            /\ pc' = "fetchPage"
            /\ hist' = [hist EXCEPT !.pickedSince = @ \cup {Key(urls[i])}]
    /\ UNCHANGED <<urls, page, call, dbOn, assetRows, fs, upstream, gets, ret, opts, env>>

\* crawlOne: fetchPage; without content the row is marked failed, with
\* content processPageWithAssets extracts the assets and calls fetchAssets
FetchPage ==
    /\ pc = "fetchPage"
    /\ \E resp \in upstream[Wrapped(cur.timestamp, normalizeUrl(cur.url))] :
         LET content == IF resp.status = 200 THEN resp.bytes ELSE <<>>
         IN IF content # <<>>
            THEN /\ page' = [page EXCEPT !.content = content]
                 /\ call' = [NoCall EXCEPT
                               !.assets = extractFromHtml(content, cur.domain),
                               !.domain = cur.domain, !.timestamp = cur.timestamp]
                 /\ pc' = "fetching"
                 /\ hist' = [hist EXCEPT !.fetchedSince = @ \cup {Key(cur)}]
                 /\ UNCHANGED <<urls, cur, opts, clock, env>>
            ELSE /\ urls' = markFailed(urls, cur.url, cur.timestamp, "Failed to fetch")
                 /\ pc' = "loop"
                 /\ cur' = NoRecord
                 /\ hist' = [hist EXCEPT !.fetchedSince = @ \cup {Key(cur)},
                                         !.lastOp = <<"failed", cur.url, cur.timestamp>>]
                 /\ UNCHANGED <<page, call, opts, clock, env>>
    /\ UNCHANGED <<dbOn, assetRows, fs, upstream, gets, ret, opts, clock, env>>

\* processPageWithAssets after fetchAssets returned: the skipped log, the
\* rewritten HTML, the rewritten CSS files, the manifest
FinishAssets ==
    /\ pc = "fetching"
    /\ call.i > Len(call.assets)
    /\ LET fs1 == IF SaveSkippedNeeded(call.result)
                  THEN saveSkippedAssets(fs, call.result.skipped, cur.domain, cur.timestamp)
                  ELSE fs
           fs2 == RewriteCssFiles(fs1, call.result.fetched, cur.domain, cur.timestamp)
       IN fs' = saveManifest(fs2, cur.domain, cur.timestamp, call.result,
                             getFileNameFromUrl(cur.url))
    /\ page' = [page EXCEPT !.processed = rewriteHtml(page.content, cur.domain)]
    /\ pc' = "save"
    /\ UNCHANGED <<urls, cur, call, dbOn, assetRows, upstream, gets, hist, ret, opts, clock, env>>

\* crawlOne: savePage
SavePage ==
    /\ pc = "save"
    /\ LET localPath == savePagePath(cur.url, cur.timestamp, cur.domain)
       IN /\ fs' = WriteFile(fs, localPath, page.processed)
          /\ page' = [page EXCEPT !.localPath = localPath]
    /\ pc' = "mark"
    /\ call' = NoCall
    /\ UNCHANGED <<urls, cur, dbOn, assetRows, upstream, gets, hist, ret, opts, clock, env>>

\* crawlOne: savePage throws (mkdirSync or writeFileSync fails: disk full,
\* no permission).  Nothing in crawlOne or processPageWithDelay catches; the
\* catch of run() logs and rethrows, finally closes the database, and the
\* process ends with the row still pending.
SavePageThrows ==
    /\ pc = "save"
    /\ hist.faults < MaxFaults
    /\ pc' = "aborted"
    /\ cur' = NoRecord
    /\ page' = NoPage
    /\ call' = NoCall
    /\ hist' = [hist EXCEPT !.faults = @ + 1, !.atHalt = urls,
                            !.pickedSince = {}, !.fetchedSince = {},
                            !.lastOp = <<"throw", cur.url, cur.timestamp>>]
    /\ UNCHANGED <<urls, dbOn, assetRows, fs, upstream, gets, ret, opts, clock, env>>

\* crawlOne: markCompleted, then extractLinks
MarkCompleted ==
    /\ pc = "mark"
    /\ urls' = markCompleted(urls, cur.url, cur.timestamp, page.localPath)
    /\ page' = [page EXCEPT !.links = extractLinks(page.content, cur.domain)]
    /\ hist' = Called("completed", cur.url, cur.timestamp)
    /\ pc' = "links"
    /\ UNCHANGED <<cur, call, dbOn, assetRows, fs, upstream, gets, ret, opts, clock, env>>

\* crawlOne: links.forEach(link => addUrl(link, timestamp, domain)), one link
AddLink ==
    /\ pc = "links"
    /\ page.links # <<>>
    /\ urls' = addUrl(urls, Head(page.links), cur.timestamp, cur.domain, "pending")
    /\ page' = [page EXCEPT !.links = Tail(@)]
    /\ hist' = Called("add", Head(page.links), cur.timestamp)
    /\ UNCHANGED <<pc, cur, call, dbOn, assetRows, fs, upstream, gets, ret, opts, clock, env>>

\* crawlOne returns true; processPageWithDelay waits and the loop goes on
EndPage ==
    /\ pc = "links"
    /\ page.links = <<>>
    /\ pc' = "loop"
    /\ cur' = NoRecord
    /\ page' = NoPage
    /\ UNCHANGED <<urls, call, dbOn, assetRows, fs, upstream, gets, hist, ret, opts, clock, env>>

\* the process is killed: what is in memory is lost, the database and the
\* files stay as they are
Crash ==
    /\ pc \notin {"stopped", "done", "aborted"}
    /\ hist.crashes < MaxCrashes
    /\ pc' = "stopped"
    /\ cur' = NoRecord
    /\ page' = NoPage
    /\ call' = NoCall
    /\ hist' = [hist EXCEPT !.crashes = @ + 1, !.atHalt = urls,
                            !.pickedSince = {}, !.fetchedSince = {},
                            !.lastOp = <<"halt">>]
    /\ UNCHANGED <<urls, dbOn, assetRows, fs, upstream, gets, ret, opts, clock, env>>

Next ==
    \/ Start
    \/ LoadLine
    \/ GetNext
    \/ FetchPage
    \/ FetchNext
    \/ FinishAssets
    \/ SavePage
    \/ SavePageThrows
    \/ MarkCompleted
    \/ AddLink
    \/ EndPage
    \/ Crash

Spec == Init /\ [][Next]_vars

(***************************************************************************)
(* Properties of the crawler (Spec).                                       *)
(***************************************************************************)
CompletedKeys(rows) == {Key(rows[i]) : i \in {j \in 1..Len(rows) : rows[j].status = "completed"}}

\* the answer of the archive for the page of a queue row
PageAnswer(k) == CHOOSE r \in upstream[Wrapped(k.timestamp, normalizeUrl(k.url))] : TRUE

HasContent(k) == PageAnswer(k).status = 200 /\ PageAnswer(k).bytes # <<>>

LinkedFrom(k) ==
    LET links == extractLinks(PageAnswer(k).bytes, k.domain)
    IN {[url |-> links[i], timestamp |-> k.timestamp, domain |-> k.domain] : i \in 1..Len(links)}

\* the rows a run that is never halted ends with: the selections and all
\* that is linked from a fetched page
RECURSIVE Discovered(_)
Discovered(S) ==
    LET more == S \cup UNION {LinkedFrom(k) : k \in {x \in S : HasContent(x)}}
    IN IF more = S THEN S ELSE Discovered(more)

SelectedRows ==
    {[url |-> Selections[i].url, timestamp |-> Selections[i].timestamp,
      domain |-> StripWww(Host(Selections[i].url))] : i \in 1..Len(Selections)}

ExpectedCompleted == {Key(k) : k \in {x \in Discovered(SelectedRows) : HasContent(x)}}

\* C1: whenever a run has ended (no pending row is left), halted before or
\* not, the completed rows are those of a run without a halt.
C1_CompletedSetConverges == pc = "done" => CompletedKeys(urls) = ExpectedCompleted

\* the baseline of C1: a run that was never halted ends with the expected rows
C1_BaselineWithoutHalt ==
    (pc = "done" /\ hist.crashes = 0) => CompletedKeys(urls) = ExpectedCompleted

\* C2: no step removes or reorders a row, and a step that changes the status
\* of a row changes it from pending to completed or from pending to failed.
C2_OnlyPendingToTerminal ==
    [][/\ Len(urls') >= Len(urls)
       /\ \A i \in 1..Len(urls) :
            /\ Key(urls'[i]) = Key(urls[i])
            /\ urls'[i].status # urls[i].status
                 => urls[i].status = "pending" /\ urls'[i].status \in {"completed", "failed"}]_vars

\* C2 witness: addUrl was just called for a row that is completed, next to a
\* failed row, and both kept their status
C2_AddOnTerminalRow ==
    /\ Len(hist.lastOp) = 3
    /\ hist.lastOp[1] = "add"
    /\ StatusOf(urls, hist.lastOp[2], hist.lastOp[3]) = "completed"
    /\ getStats(urls, "failed") > 0

\* C4: after a halt, a row that was pending at the halt is pending until the
\* new process picks it, and every page fetch since the halt is for a row
\* that was pending at the halt or did not exist then.
C4_RestartResumesPendingOnly ==
    hist.crashes >= 1 =>
        /\ \A i \in 1..Len(hist.atHalt) :
             hist.atHalt[i].status = "pending"
               => \/ StatusOf(urls, hist.atHalt[i].url, hist.atHalt[i].timestamp) = "pending"
                  \/ Key(hist.atHalt[i]) \in hist.pickedSince
        /\ \A k \in hist.fetchedSince :
             StatusOf(hist.atHalt, k[1], k[2]) \in {"pending", "absent"}

\* C4 witness: the queue held completed, failed and pending rows at the halt,
\* the process was restarted, reloaded the selections and fetched a page
C4_RestartedWithMixedQueue ==
    /\ hist.crashes >= 1
    /\ getStats(hist.atHalt, "completed") > 0
    /\ getStats(hist.atHalt, "failed") > 0
    /\ getStats(hist.atHalt, "pending") > 0
    /\ hist.fetchedSince # {}

\* C7: in a behaviour without a halt, an archive URL that was downloaded was
\* requested over the network exactly once, however many pages asked for it.
C7_OneGetPerArchiveUrl ==
    hist.crashes = 0 => \A w \in DOMAIN gets : gets[w].ok >= 1 => gets[w].get = 1

OverSizeLimit(o) == o.status = 200 /\ o.length > MaxAssetSizeMB * BytesPerMB

LoggedAsSkipped(fsys, domain, timestamp, url, reason) ==
    /\ Exists(fsys, SkippedAssetsPath(domain, timestamp))
    /\ LET log == ReadFile(fsys, SkippedAssetsPath(domain, timestamp))
       IN \E n \in 1..Len(log) :
            log[n].tag = "skipped" /\ log[n].rel = reason /\ log[n].url = url

\* C9: when processPageWithAssets has returned, for every asset of the page
\* whose response announced more than the size limit the request wrote no
\* file and skipped_assets.json of the snapshot lists the asset with reason
\* size_limit.
C9_SizeGate ==
    pc = "save" =>
        \A i \in 1..Len(call.outcomes) :
            OverSizeLimit(call.outcomes[i])
              => /\ ~call.outcomes[i].wrote
                 /\ ~Exists(fs, getAssetPath(call.outcomes[i].asset, cur.domain, cur.timestamp))
                 /\ LoggedAsSkipped(fs, cur.domain, cur.timestamp,
                                    call.outcomes[i].asset.url, "size_limit")

\* C9 witness: a page was processed one of whose assets was over the limit
C9_PageWithOversizedAsset ==
    /\ pc = "save"
    /\ \E i \in 1..Len(call.outcomes) : OverSizeLimit(call.outcomes[i])

\* the files below a directory
InTree(p, dir) == Len(p) > Len(dir) /\ SubSeq(p, 1, Len(dir)) = dir

\* the snapshot trees that hold a manifest
Snapshots ==
    {dt \in {<<urls[i].domain, urls[i].timestamp>> : i \in 1..Len(urls)} :
        Exists(fs, ManifestPath(dt[1], dt[2]))}

\* the page files of a snapshot tree, relative to its root
TreePages(domain, timestamp) ==
    {SubSeq(p, Len(domain) + 2, Len(p)) :
        p \in {q \in DOMAIN fs.files :
                 /\ InTree(q, domain \o <<timestamp>>)
                 /\ ~InTree(q, domain \o <<timestamp, "assets">>)
                 /\ q \notin {ManifestPath(domain, timestamp),
                              SkippedAssetsPath(domain, timestamp)}}}

\* the asset files of a snapshot tree
TreeAssets(domain, timestamp) ==
    {q \in DOMAIN fs.files : InTree(q, domain \o <<timestamp, "assets">>)}

ManifestOf(domain, timestamp) == ReadFile(fs, ManifestPath(domain, timestamp))

ManifestPages(m) == {Pathname(m[i].url) : i \in {j \in 1..Len(m) : m[j].tag = "page"}}

ManifestTotals(m) == {m[i].sizeBytes : i \in {j \in 1..Len(m) : m[j].tag = "total"}}

\* C14: between two pages of an uninterrupted run, the manifest of every
\* snapshot tree names every page file saved in the tree and its total is the
\* number of asset files in the tree.
C14_ManifestMatchesTree ==
    (pc = "loop" /\ hist.crashes = 0) =>
        \A dt \in Snapshots :
            /\ TreePages(dt[1], dt[2]) \subseteq ManifestPages(ManifestOf(dt[1], dt[2]))
            /\ ManifestTotals(ManifestOf(dt[1], dt[2])) = {Cardinality(TreeAssets(dt[1], dt[2]))}

\* C15: when a file write of a page has failed, the run goes on: the main
\* loop is at its next iteration and the row of that page is failed.
C15_PageFailureDoesNotAbort ==
    hist.lastOp[1] = "throw" =>
        /\ pc = "loop"
        /\ StatusOf(urls, hist.lastOp[2], hist.lastOp[3]) = "failed"

\* the answer of the archive for an asset of a page
AssetAnswer(asset, timestamp) == CHOOSE r \in upstream[WaybackUrl(asset.url, timestamp)] : TRUE

\* the assets of the page of a row that the archive serves and the fetcher keeps
StorableAssets(k) ==
    LET assets == extractFromHtml(PageAnswer(k).bytes, k.domain)
    IN {assets[i] : i \in {j \in 1..Len(assets) :
            /\ Parses(assets[j].url)
            /\ AssetAnswer(assets[j], k.timestamp).status = 200
            /\ ~OverSizeLimit(AssetAnswer(assets[j], k.timestamp))}}

Requested ==
    LET IsGet(e) == e[1] = "get"
        g == SelectSeq(call.trace, IsGet)
    IN [n \in 1..Len(g) |-> g[n][2]]

\* the archive URLs of the assets gone through that needed a request, in the
\* order of the assets
RequestsInAssetOrder ==
    LET Sent(o) == o.get
        g == SelectSeq(call.outcomes, Sent)
    IN [n \in 1..Len(g) |-> g[n].w]

C20_DiscoveredRowsConfined ==
    [][(pc = "links" /\ Len(urls') > Len(urls)) =>
          LET r == urls'[Len(urls')]
          IN /\ r.timestamp = cur.timestamp
             /\ r.domain = cur.domain
             /\ r.status = "pending"
             /\ Host(r.url) \in {cur.domain, <<"www.">> \o cur.domain}]_vars

\* the part of C20 that the crawler keeps: timestamp and domain of the page
C20_DiscoveredRowsSameSnapshot ==
    [][(pc = "links" /\ Len(urls') > Len(urls)) =>
          LET r == urls'[Len(urls')]
          IN /\ r.timestamp = cur.timestamp
             /\ r.domain = cur.domain
             /\ Host(r.url) \in {cur.domain, <<"www.">> \o cur.domain, EmptyHost}]_vars

(***************************************************************************)
(* The extractor and the rewriter on their own: one document, an HTML page *)
(* or a stylesheet, is extracted and then rewritten, for every host and    *)
(* base domain of the model.                                               *)
(***************************************************************************)
ExtractPaths == {<<>>, <<"a.png">>, <<"css", "style.css">>}

ExtractElems ==
    {Elem(tg[1], tg[2], Url(h, p, ""), tg[3]) :
        tg \in {<<"link", "stylesheet", "">>, <<"script", "", "">>, <<"img", "", "">>,
                <<"video", "", "">>, <<"source", "", "video">>},
        h \in Hosts \cup {NoHost}, p \in ExtractPaths}

\* elements of the two-element pages
PairElems ==
    {Elem("img", "", ImgA, ""), Elem("script", "", ImgA, ""), Elem("img", "", ImgB, "")}

ExtractDocs ==
    {<<e>> : e \in ExtractElems} \cup {<<e, f>> : e \in PairElems, f \in PairElems}

\* the stylesheets: at the top of assets/, one and two directories down, and
\* on a third-party host
StyleUrls ==
    {Url(Dom, <<"s.css">>, ""), Url(Dom, <<"css", "style.css">>, ""),
     Url(Dom, <<"css", "v2", "style.css">>, ""), Url(OtherHost, <<"css", "style.css">>, "")}

StyleRefs ==
    {Url(h, p, "") : h \in Hosts \cup {NoHost}, p \in {<<"a.png">>, <<"fonts", "f.woff">>}}

StyleDocs ==
    {<<CssRef(u)>> : u \in StyleRefs} \cup {<<CssRef(u), CssRef(u)>> : u \in {ImgA}}

BaseDomains == {Dom, <<"y.com">>}

InitExtract ==
    /\ urls = <<>>
    /\ \E d \in BaseDomains :
         \/ /\ pc = "parsed"
            /\ cur = [NoRecord EXCEPT !.domain = d, !.timestamp = TS1, !.url = PageRoot]
            /\ \E doc \in ExtractDocs : page = [NoPage EXCEPT !.content = doc]
         \/ /\ pc = "stylesheet"
            /\ \E s \in StyleUrls :
                 cur = [NoRecord EXCEPT !.domain = d, !.timestamp = TS1, !.url = s]
            /\ \E doc \in StyleDocs : page = [NoPage EXCEPT !.content = doc]
    /\ call = NoCall
    /\ dbOn = FALSE
    /\ assetRows = <<>>
    /\ fs = EmptyFs
    /\ upstream = EmptyFn
    /\ gets = EmptyFn
    /\ hist = NoHist
    /\ ret = NoRecord
    /\ opts = DefaultOptions
    /\ clock = Noon
    /\ env = QuietEnv

\* new AssetExtractor(domain).extractFromHtml(html, url, fileName)
ExtractAssets ==
    /\ pc = "parsed"
    /\ call' = [NoCall EXCEPT !.assets = extractFromHtml(page.content, cur.domain),
                              !.domain = cur.domain]
    /\ pc' = "extracted"
    /\ UNCHANGED <<urls, cur, page, dbOn, assetRows, fs, upstream, gets, hist, ret, opts, clock, env>>

\* new URLRewriter(domain).rewriteHtml(html, url)
RewriteDocument ==
    /\ pc = "extracted"
    /\ page' = [page EXCEPT !.processed = rewriteHtml(page.content, cur.domain)]
    /\ pc' = "rewritten"
    /\ UNCHANGED <<urls, cur, call, dbOn, assetRows, fs, upstream, gets, hist, ret, opts, clock, env>>

\* new AssetExtractor(domain).extractFromCss(css, cssUrl, fileName)
ExtractStylesheet ==
    /\ pc = "stylesheet"
    /\ call' = [NoCall EXCEPT !.assets = extractFromCss(page.content, cur.domain),
                              !.domain = cur.domain]
    /\ pc' = "extractedCss"
    /\ UNCHANGED <<urls, cur, page, dbOn, assetRows, fs, upstream, gets, hist, ret, opts, clock, env>>

\* new URLRewriter(domain).rewriteCss(css, cssUrl)
RewriteStylesheet ==
    /\ pc = "extractedCss"
    /\ page' = [page EXCEPT !.processed = rewriteCss(page.content, cur.domain)]
    /\ pc' = "rewrittenCss"
    /\ UNCHANGED <<urls, cur, call, dbOn, assetRows, fs, upstream, gets, hist, ret, opts, clock, env>>

NextExtract ==
    \/ ExtractAssets
    \/ RewriteDocument
    \/ ExtractStylesheet
    \/ RewriteStylesheet

SpecExtract == InitExtract /\ [][NextExtract]_vars

\* C10: every extracted reference with a host is internal exactly when its
\* host is the domain or www.{domain}.
C10_InternalIffDomainOrWww ==
    pc = "extracted" =>
        \A i \in 1..Len(call.assets) :
            Parses(call.assets[i].url)
              => (call.assets[i].isExternal = FALSE
                    <=> Host(call.assets[i].url) \in {cur.domain, <<"www.">> \o cur.domain})


\* a relative reference resolved from a directory: ".." drops the last
\* segment, any other segment is appended
RECURSIVE ResolveFrom(_, _)
ResolveFrom(dir, rel) ==
    IF rel = <<>> THEN dir
    ELSE IF Head(rel) = ".."
    THEN ResolveFrom(IF dir = <<>> THEN dir ELSE SubSeq(dir, 1, Len(dir) - 1), Tail(rel))
    ELSE ResolveFrom(Append(dir, Head(rel)), Tail(rel))

Dirname(p) == IF p = <<>> THEN p ELSE SubSeq(p, 1, Len(p) - 1)

\* {domain}/{timestamp}: the directory the page files are saved in
SnapshotRoot == cur.domain \o <<cur.timestamp>>

\* the extracted references to the URL of element i of the document
RefsOf(i) == {k \in 1..Len(call.assets) : call.assets[k].url = page.content[i].url}

\* C11: in a rewritten page every parseable asset reference, resolved from the
\* snapshot root, is the path at which the fetcher stores that asset.
C11_HtmlRewriteRoundTrip ==
    pc = "rewritten" =>
        \A i \in 1..Len(page.content) : \A k \in RefsOf(i) :
            Parses(page.content[i].url)
              => ResolveFrom(SnapshotRoot, Pathname(page.processed[i].url))
                   = getAssetPath(call.assets[k], cur.domain, cur.timestamp)

\* the stylesheet being rewritten, as the page that links it extracts it
StylesheetAsset == createAssetReference(cur.url, "css", cur.domain)

\* C12: in a rewritten stylesheet every parseable url() reference, resolved
\* from the directory the stylesheet is stored in, is the path at which the
\* fetcher stores the referenced asset.
C12_CssRewriteRoundTrip ==
    pc = "rewrittenCss" =>
        \A i \in 1..Len(page.content) : \A k \in RefsOf(i) :
            Parses(page.content[i].url)
              => ResolveFrom(Dirname(getAssetPath(StylesheetAsset, cur.domain, cur.timestamp)),
                             Pathname(page.processed[i].url))
                   = getAssetPath(call.assets[k], cur.domain, cur.timestamp)

\* C13: the extracted sequence holds each URL at most once.
C13_ExtractedUrlsDistinct ==
    pc \in {"extracted", "extractedCss"} =>
        \A j, k \in 1..Len(call.assets) :
            call.assets[j].url = call.assets[k].url => j = k

(***************************************************************************)
(* The scheduler on its own: waitForOffPeak called once, for every window, *)
(* every setting of the command line and every local time of the model.    *)
(***************************************************************************)
WindowTimes == {HM(22, 0), HM(6, 0), HM(0, 0), HM(23, 59), HM(9, 30)}

ClockTimes ==
    {Minutes(t) : t \in WindowTimes}
    \cup {Minutes(t) - 1 : t \in WindowTimes \ {HM(0, 0)}}
    \cup {Minutes(t) + 1 : t \in WindowTimes \ {HM(23, 59)}}
    \cup {Noon}

InitClock ==
    /\ urls = <<>>
    /\ pc = "called"
    /\ cur = NoRecord
    /\ page = NoPage
    /\ call = NoCall
    /\ dbOn = FALSE
    /\ assetRows = <<>>
    /\ fs = EmptyFs
    /\ upstream = EmptyFn
    /\ gets = EmptyFn
    /\ hist = NoHist
    /\ ret = NoRecord
    /\ \E scheduler \in BOOLEAN, delay \in BOOLEAN, start \in WindowTimes, end \in WindowTimes :
         opts = CliOptions(scheduler, delay, start, end)
    /\ clock \in ClockTimes
    /\ env = QuietEnv

\* await this.waitForOffPeak()
WaitForOffPeak ==
    /\ pc = "called"
    /\ clock' = waitForOffPeak(opts, clock)
    /\ hist' = [hist EXCEPT !.lastOp = <<"wait", clock, waitMinutes(opts, clock)>>]
    /\ pc' = "returned"
    /\ UNCHANGED <<urls, cur, page, call, dbOn, assetRows, fs, upstream, gets, ret, opts, env>>

NextClock == WaitForOffPeak

SpecClock == InitClock /\ [][NextClock]_vars

\* the local time t is in the window from start to end, both included, the
\* window going over midnight when end is before start
InWindow(start, end, t) ==
    (t - Minutes(start) + MinutesPerDay) % MinutesPerDay
        <= (Minutes(end) - Minutes(start) + MinutesPerDay) % MinutesPerDay

\* C21: with the scheduler enabled, waitForOffPeak returns at a local time
\* inside the window, and it does not wait when it is called inside the
\* window.
C21_ReturnsInsideWindow ==
    (pc = "returned" /\ opts.useOffPeakScheduler) =>
        /\ InWindow(opts.offPeakStart, opts.offPeakEnd, clock)
        /\ InWindow(opts.offPeakStart, opts.offPeakEnd, hist.lastOp[2])
             => (hist.lastOp[3] = 0 /\ clock = hist.lastOp[2])

\* C21 witness: the window spans midnight and the call, made outside the
\* window after its end, has waited
C21_WaitedForWindowOverMidnight ==
    /\ pc = "returned"
    /\ opts.useOffPeakScheduler
    /\ Minutes(opts.offPeakStart) > Minutes(opts.offPeakEnd)
    /\ hist.lastOp[3] > 0
    /\ hist.lastOp[2] > Minutes(opts.offPeakEnd)

(***************************************************************************)
(* The crawler run to its end without a halt, with the scheduler enabled   *)
(* and disabled, started inside and outside the window.                    *)
(***************************************************************************)
SchedOptions ==
    {CliOptions(scheduler, delay, HM(22, 0), HM(6, 0)) :
        scheduler \in BOOLEAN, delay \in BOOLEAN}

InitSched ==
    /\ urls = <<>>
    /\ pc = "stopped"
    /\ cur = NoRecord
    /\ page = NoPage
    /\ call = NoCall
    /\ dbOn = FALSE
    /\ assetRows = <<>>
    /\ fs = EmptyFs
    /\ \E site \in Archives :
         upstream = [w \in {Wrapped(TS1, u) : u \in SiteUrls} |-> {site[normalizeUrl(w)]}]
    /\ gets = EmptyFn
    /\ hist = NoHist
    /\ ret = NoRecord
    /\ opts \in SchedOptions
    /\ clock \in {Noon, Minutes(HM(23, 0))}
    /\ env = QuietEnv

NextSched ==
    \/ Start
    \/ LoadLine
    \/ GetNext
    \/ FetchPage
    \/ FetchNext
    \/ FinishAssets
    \/ SavePage
    \/ MarkCompleted
    \/ AddLink
    \/ EndPage

SpecSched == InitSched /\ [][NextSched]_vars

\* what the selections and the archive alone determine: the rows of the queue
\* with their status, and the files of the tree
ExpectedRows ==
    {<<Key(k), IF HasContent(k) THEN "completed" ELSE "failed">> : k \in Discovered(SelectedRows)}

PageAssets(k) == extractFromHtml(PageAnswer(k).bytes, k.domain)

SkipsSome(k) ==
    \E i \in 1..Len(PageAssets(k)) :
        LET r == AssetAnswer(PageAssets(k)[i], k.timestamp)
        IN r.status = 404 \/ OverSizeLimit(r)

ExpectedFiles ==
    LET done == {k \in Discovered(SelectedRows) : HasContent(k)}
    IN {savePagePath(k.url, k.timestamp, k.domain) : k \in done}
       \cup {ManifestPath(k.domain, k.timestamp) : k \in done}
       \cup {SkippedAssetsPath(k.domain, k.timestamp) : k \in {x \in done : SkipsSome(x)}}
       \cup UNION {{getAssetPath(a, k.domain, k.timestamp) : a \in StorableAssets(k)} : k \in done}

QueueRows == {<<Key(urls[i]), urls[i].status>> : i \in 1..Len(urls)}

\* C22: whatever the scheduler setting and the time the run starts at, a run
\* ends with the rows and the files that the selections and the archive
\* determine; a disabled scheduler (--no-scheduler or --no-delay) never moves
\* the clock, and no wait changes the queue or a file.
C22_SchedulerDoesNotChangeResults ==
    /\ [](pc = "done" => (QueueRows = ExpectedRows /\ DOMAIN fs.files = ExpectedFiles))
    /\ [][/\ ~opts.useOffPeakScheduler => clock' = clock
          /\ clock' # clock => (urls' = urls /\ fs' = fs /\ assetRows' = assetRows)]_vars

\* C22 witness: a run with the scheduler enabled, started outside the window,
\* has waited and has ended
C22_RunEndedAfterWaiting ==
    /\ pc = "done"
    /\ opts.useOffPeakScheduler
    /\ clock = Minutes(opts.offPeakStart)
    /\ getStats(urls, "completed") > 1

(***************************************************************************)
(* The crawler with the download of one asset in two steps: the write      *)
(* stream is opened (the file is created or truncated), then the body is   *)
(* piped, hashed and recorded.  The process can be interrupted (SIGINT) or *)
(* killed between the two.  The fetcher is built with the asset store      *)
(* or, as WaybackCrawler builds it, without.                               *)
(***************************************************************************)
StreamHtml ==
    << Elem("img", "", ImgA, ""),
       Elem("img", "", ImgB, "") >>

StreamSite ==
    [u \in {PageRoot, ImgA, ImgB} |->
        CASE u = PageRoot -> Ok(StreamHtml, 700)
          [] u = ImgA -> Ok(Bytes("X"), 500)
          [] u = ImgB -> Ok(Bytes("X"), 500)]

InitStream ==
    /\ urls = <<>>
    /\ pc = "stopped"
    /\ cur = NoRecord
    /\ page = NoPage
    /\ call = NoCall
    /\ dbOn \in BOOLEAN
    /\ assetRows = <<>>
    /\ fs = EmptyFs
    /\ upstream = [w \in {Wrapped(TS1, u) : u \in DOMAIN StreamSite} |->
                     {StreamSite[normalizeUrl(w)]}]
    /\ gets = EmptyFn
    /\ hist = NoHist
    /\ ret = NoRecord
    /\ opts = DefaultOptions
    /\ clock = Noon
    /\ env = QuietEnv

\* fetchSingleAsset gets as far as fs.createWriteStream(assetPath): no cache
\* hit served, status 200, within the size limit, a path for the asset
StreamOpens(asset, domain, timestamp, resp, fsys, rows, db) ==
    LET w == WaybackUrl(asset.url, timestamp)
        assetPath == getAssetPath(asset, domain, timestamp)
        cached == getAssetByWaybackUrl(rows, w)
    IN /\ Parses(asset.url)
       /\ resp.status = 200
       /\ resp.length <= MaxAssetSizeMB * BytesPerMB
       /\ (db /\ HasAsset(rows, w)) =>
             (~Exists(fsys, assetPath) /\ LinkFails(fsys, cached.file_path, assetPath))

StreamOpensNext ==
    /\ call.i <= Len(call.assets)
    /\ \E resp \in upstream[WaybackUrl(NextAsset(call.assets, call.i).url, call.timestamp)] :
         StreamOpens(NextAsset(call.assets, call.i), call.domain, call.timestamp, resp,
                     fs, assetRows, dbOn)

\* an iteration that never opens a write stream
FetchDirect ==
    /\ pc = "fetching"
    /\ ~StreamOpensNext
    /\ FetchIteration(FALSE)
    /\ UNCHANGED pc

\* a fetcher that records the asset as soon as the write stream is open
OpenStreamSavesRow ==
    /\ pc = "fetching"
    /\ StreamOpensNext
    /\ LET asset == NextAsset(call.assets, call.i)
           assetPath == getAssetPath(asset, call.domain, call.timestamp)
       IN /\ fs' = WriteFile(fs, assetPath, <<>>)
          /\ assetRows' = IF dbOn
                          THEN saveAsset(assetRows,
                                         [waybackUrl |-> WaybackUrl(asset.url, call.timestamp),
                                          originalUrl |-> asset.url,
                                          contentHash |-> Sha256(<<>>),
                                          filePath |-> assetPath, sizeBytes |-> 0,
                                          domain |-> call.domain,
                                          timestamp |-> call.timestamp])
                          ELSE assetRows
    /\ gets' = CountSent(gets, WaybackUrl(NextAsset(call.assets, call.i).url, call.timestamp))
    /\ pc' = "streaming"
    /\ UNCHANGED <<urls, cur, page, call, dbOn, upstream, hist, ret, opts, clock, env>>

\* fs.createWriteStream(assetPath); response.data.pipe(writer)
OpenStream ==
    /\ pc = "fetching"
    /\ StreamOpensNext
    /\ fs' = WriteFile(fs, getAssetPath(NextAsset(call.assets, call.i), call.domain,
                                        call.timestamp), <<>>)
    /\ gets' = CountSent(gets, WaybackUrl(NextAsset(call.assets, call.i).url, call.timestamp))
    /\ pc' = "streaming"
    /\ UNCHANGED <<urls, cur, page, call, dbOn, assetRows, upstream, hist, ret,
                   opts, clock, env>>

\* writer 'finish': the file is complete; hash, content dedup, saveAsset
CloseStream ==
    /\ pc = "streaming"
    /\ FetchIteration(TRUE)
    /\ pc' = "fetching"

\* process.on('SIGINT', () => { console.log(...); process.exit(0); })
Interrupt ==
    /\ pc \notin {"stopped", "done", "aborted"}
    /\ hist.crashes < MaxCrashes
    /\ pc' = "stopped"
    /\ cur' = NoRecord
    /\ page' = NoPage
    /\ call' = NoCall
    /\ hist' = [hist EXCEPT !.crashes = @ + 1, !.atHalt = urls,
                            !.pickedSince = {}, !.fetchedSince = {},
                            !.lastOp = <<"sigint", pc, cur, call>>]
    /\ UNCHANGED <<urls, dbOn, assetRows, fs, upstream, gets, ret, opts, clock, env>>

NextStream ==
    \/ Start
    \/ LoadLine
    \/ GetNext
    \/ FetchPage
    \/ FetchDirect
    \/ OpenStream
    \/ CloseStream
    \/ FinishAssets
    \/ SavePage
    \/ MarkCompleted
    \/ AddLink
    \/ EndPage
    \/ Interrupt
    \/ Crash

SpecStream == InitStream /\ [][NextStream]_vars

\* the last halt was an interrupt that arrived with a write stream open
InterruptedMidStream ==
    /\ pc = "stopped"
    /\ hist.lastOp[1] = "sigint"
    /\ hist.lastOp[2] = "streaming"

\* C23: after an interrupt that arrived while an asset was being downloaded
\* the process has exited with that asset's file holding the whole body the
\* archive sent, every queue row has one of the four statuses, and the row
\* of the interrupted page is pending.
C23_InterruptFinishesAsset ==
    InterruptedMidStream =>
        LET page0 == hist.lastOp[3]
            call0 == hist.lastOp[4]
            asset == NextAsset(call0.assets, call0.i)
            assetPath == getAssetPath(asset, call0.domain, call0.timestamp)
        IN /\ Exists(fs, assetPath)
           /\ ReadFile(fs, assetPath) = AssetAnswer(asset, call0.timestamp).bytes
           /\ \A i \in 1..Len(urls) :
                /\ urls[i].status \in {"pending", "processing", "completed", "failed"}
                /\ Key(urls[i]) = Key(page0) => urls[i].status = "pending"

\* C23, the part that holds: after such an interrupt the queue is valid and
\* the interrupted page is pending.
C23_QueueValidAfterInterrupt ==
    InterruptedMidStream =>
        \A i \in 1..Len(urls) :
            /\ urls[i].status \in {"pending", "processing", "completed", "failed"}
            /\ Key(urls[i]) = Key(hist.lastOp[3]) => urls[i].status = "pending"

\* the write stream of a download for archive URL w has finished
StreamFinished(w) == Count(gets, w).ok > 0

\* the assets of the selected page, as fetchAssets is called with them
StreamAssets == extractFromHtml(StreamHtml, Dom)

\* the asset's file below the snapshot holds the whole body the archive sent
CompleteFile(asset, timestamp) ==
    /\ Exists(fs, getAssetPath(asset, Dom, timestamp))
    /\ ReadFile(fs, getAssetPath(asset, Dom, timestamp)) = AssetAnswer(asset, timestamp).bytes

\* C24: a row of table assets exists only for an archive URL whose write
\* stream finished, and the file it names exists; while a stream is open its asset has no row; and when a run has ended
\* with the store enabled, whatever was killed before, every asset of the
\* page has a complete file and a row.
C24_RowOnlyAfterStream ==
    /\ \A i \in 1..Len(assetRows) :
         /\ StreamFinished(assetRows[i].wayback_url)
         /\ Exists(fs, assetRows[i].file_path)
    /\ pc = "streaming" =>
         ~HasAsset(assetRows, WaybackUrl(NextAsset(call.assets, call.i).url, call.timestamp))
    /\ (pc = "done" /\ dbOn) =>
         \A k \in 1..Len(StreamAssets) :
            /\ HasAsset(assetRows, WaybackUrl(StreamAssets[k].url, TS1))
            /\ CompleteFile(StreamAssets[k], TS1)

\* C24 witness: a process was killed with a stream open, the file was left
\* without a row, and a later run downloaded the asset again and ended
C24_RedownloadedAfterKill ==
    /\ pc = "done"
    /\ dbOn
    /\ hist.crashes > 0
    /\ \E k \in 1..Len(StreamAssets) :
         LET w == WaybackUrl(StreamAssets[k].url, TS1)
         IN /\ Count(gets, w).get = 2
            /\ Count(gets, w).ok = 1
            /\ Cardinality(AssetRowsFor(assetRows, w)) = 1

(***************************************************************************)
(* The store-enabled fetcher: what the rows say about the files.           *)
(***************************************************************************)
\* the file a row names holds bytes with the hash the row records
HashRecorded(row) ==
    /\ Exists(fs, row.file_path)
    /\ Sha256(ReadFile(fs, row.file_path)) = row.content_hash

\* C25: in every state the bytes at the file_path of every row of table
\* assets hash to the content_hash of that row.
C25_FileHasRecordedHash == \A i \in 1..Len(assetRows) : HashRecorded(assetRows[i])

(***************************************************************************)
(* The store-enabled fetcher on a file system that may refuse hard links.  *)
(***************************************************************************)
LinkResponses == {Ok(Bytes("X"), 500), Ok(Bytes("Y"), 500)}

InitLink ==
    /\ urls = <<>>
    /\ pc = "idle"
    /\ cur = NoRecord
    /\ page = NoPage
    /\ call = NoCall
    /\ dbOn = TRUE
    /\ assetRows = <<>>
    /\ fs = EmptyFs
    /\ upstream = [w \in ArchiveUrls |-> LinkResponses]
    /\ gets = EmptyFn
    /\ hist = NoHist
    /\ ret = NoRecord
    /\ opts = DefaultOptions
    /\ clock = Noon
    /\ env \in {[linkFails |-> b] : b \in BOOLEAN}

SpecLink == InitLink /\ [][NextFetch]_vars

\* the iteration that is about to run, and what it found
LinkAsset == NextAsset(call.assets, call.i)
LinkUrl == WaybackUrl(LinkAsset.url, call.timestamp)
LinkPath == getAssetPath(LinkAsset, call.domain, call.timestamp)

\* STEP 1 finds a row and has to link its file to the asset's path
CacheHitNeedsLink ==
    /\ HasAsset(assetRows, LinkUrl)
    /\ Parses(LinkAsset.url)
    /\ ~Exists(fs, LinkPath)
    /\ Exists(fs, getAssetByWaybackUrl(assetRows, LinkUrl).file_path)

\* the iteration downloaded bytes that another row's file already holds
DuplicateNeedsLink ==
    /\ ~HasAsset(assetRows, LinkUrl)
    /\ Len(assetRows') = Len(assetRows) + 1
    /\ assetRows'[Len(assetRows')].file_path # LinkPath

\* C26: on a file system that refuses hard links, an iteration that has to
\* link (cache hit, content duplicate) still leaves a file at the asset's
\* path with the bytes of the file it reuses; a cache hit sends no request
\* and counts the reuse in download_count; a content duplicate is recorded
\* by a row that names the existing file.
C26_LinkFailureFallsBackToCopy ==
    [][(pc = "fetching" /\ call.i <= Len(call.assets) /\ call'.i = call.i + 1
        /\ env.linkFails) =>
         /\ CacheHitNeedsLink =>
              LET cached == getAssetByWaybackUrl(assetRows, LinkUrl)
              IN /\ Exists(fs', LinkPath)
                 /\ ReadFile(fs', LinkPath) = ReadFile(fs, cached.file_path)
                 /\ Count(gets', LinkUrl).get = Count(gets, LinkUrl).get
                 /\ getAssetByWaybackUrl(assetRows', LinkUrl).download_count
                      = cached.download_count + 1
         /\ DuplicateNeedsLink =>
              LET row == assetRows'[Len(assetRows')]
              IN /\ Exists(fs', LinkPath)
                 /\ ReadFile(fs', LinkPath) = ReadFile(fs', row.file_path)
                 /\ row.wayback_url = LinkUrl]_vars

\* C26, cache-hit half alone
C26_CacheHitLinkFailure ==
    [][(pc = "fetching" /\ call.i <= Len(call.assets) /\ call'.i = call.i + 1
        /\ env.linkFails /\ CacheHitNeedsLink) =>
         /\ Exists(fs', LinkPath)
         /\ Count(gets', LinkUrl).get = Count(gets, LinkUrl).get]_vars

\* C26, content-duplicate half alone
C26_DuplicateLinkFailure ==
    [][(pc = "fetching" /\ call.i <= Len(call.assets) /\ call'.i = call.i + 1
        /\ env.linkFails /\ DuplicateNeedsLink) =>
         Exists(fs', LinkPath)]_vars

(***************************************************************************)
(* The store-enabled fetcher: rows and fetches.                            *)
(***************************************************************************)
\* the archive URLs whose asset some call reported as fetched
ReportedFetched == {w \in DOMAIN gets : gets[w].ok > 0}

\* the path below the snapshot that a row's asset is written to
RowTarget(row) ==
    getAssetPath(createAssetReference(row.original_url, "image", row.domain),
                 row.domain, row.timestamp)

\* C27: with the store enabled there is exactly one row for every archive
\* URL whose asset was reported as fetched, no two rows have the same
\* wayback_url, every iteration of the running call that sent a request and
\* wrote a file has a row for its archive URL, and every file on disk is the
\* target of some row.
C27_OneRowPerFetchedUrl ==
    /\ \A w \in ReportedFetched : Cardinality(AssetRowsFor(assetRows, w)) = 1
    /\ \A i, j \in 1..Len(assetRows) :
         assetRows[i].wayback_url = assetRows[j].wayback_url => i = j
    /\ \A k \in 1..Len(call.outcomes) :
         (call.outcomes[k].get /\ call.outcomes[k].wrote) =>
            HasAsset(assetRows, call.outcomes[k].w)
    /\ \A p \in DOMAIN fs.files : \E i \in 1..Len(assetRows) : RowTarget(assetRows[i]) = p

\* C27 witness: three fetches were reported for three archive URLs, two of
\* them with the same bytes, so that two rows name one file
C27_ThreeRowsOneSharedFile ==
    /\ Cardinality(ReportedFetched) = 3
    /\ Len(assetRows) = 3
    /\ \E i, j \in 1..Len(assetRows) : i # j /\ assetRows[i].file_path = assetRows[j].file_path

\* the requests for archive URL w that ended with the asset stored
Downloads(w) == Count(gets, w).ok

\* the asset URL u is stored for both snapshots with one content hash
StoredInBothSnapshots(u) ==
    /\ \A t \in Timestamps : HasAsset(assetRows, WaybackUrl(u, t))
    /\ getAssetByWaybackUrl(assetRows, WaybackUrl(u, TS1)).content_hash
         = getAssetByWaybackUrl(assetRows, WaybackUrl(u, TS2)).content_hash

SnapshotPath(u, t) == getAssetPath(createAssetReference(u, "image", Dom), Dom, t)

\* C28: an asset URL stored with identical bytes for both snapshots was
\* downloaded exactly once, and its two paths, one below each snapshot, are
\* names of one file.
C28_OneDownloadForAllSnapshots ==
    \A u \in HarnessUrls :
        StoredInBothSnapshots(u) =>
            /\ Downloads(WaybackUrl(u, TS1)) + Downloads(WaybackUrl(u, TS2)) = 1
            /\ Exists(fs, SnapshotPath(u, TS1))
            /\ Exists(fs, SnapshotPath(u, TS2))
            /\ fs.files[SnapshotPath(u, TS1)] = fs.files[SnapshotPath(u, TS2)]

\* C28, the part about the disk alone: both rows name one file
C28_BothRowsNameOneFile ==
    \A u \in HarnessUrls :
        StoredInBothSnapshots(u) =>
            getAssetByWaybackUrl(assetRows, WaybackUrl(u, TS1)).file_path
              = getAssetByWaybackUrl(assetRows, WaybackUrl(u, TS2)).file_path

(***************************************************************************)
(* The store-enabled fetcher against an archive that answers every asset   *)
(* URL with one fixed status.                                              *)
(***************************************************************************)
StatusResponses == {Ok(Bytes("X"), 500), Err(404), Err(410), Err(403)}

InitStatus ==
    /\ urls = <<>>
    /\ pc = "idle"
    /\ cur = NoRecord
    /\ page = NoPage
    /\ call = NoCall
    /\ dbOn = TRUE
    /\ assetRows = <<>>
    /\ fs = EmptyFs
    /\ \E answer \in [HarnessUrls -> StatusResponses] :
         upstream = [w \in ArchiveUrls |-> {answer[normalizeUrl(w)]}]
    /\ gets = EmptyFn
    /\ hist = NoHist
    /\ ret = NoRecord
    /\ opts = DefaultOptions
    /\ clock = Noon
    /\ env = QuietEnv

SpecStatus == InitStatus /\ [][NextFetch]_vars

\* the assets of the running call that are in result.skipped with the reason
SkippedFor(reason) ==
    {call.result.skipped[i].url :
        i \in {j \in 1..Len(call.result.skipped) : call.result.skipped[j].reason = reason}}

\* the assets of the running call that are in result.errors
InErrors == {call.result.errors[i].asset.url : i \in 1..Len(call.result.errors)}

NotFoundStatus == {404, 410}
ClientErrorStatus == 400..499
TooManyRequests == 429

\* C29: an asset whose request was answered 404 or 410 is in skipped with
\* reason fetch_error and not in errors; one answered with another 4xx
\* except 429 is in errors and not in skipped; and no archive URL has been
\* requested more often than fetchSingleAsset was called for it.
C29_ErrorMapping ==
    /\ \A k \in 1..Len(call.outcomes) :
         LET o == call.outcomes[k]
         IN o.get =>
              /\ o.status \in NotFoundStatus =>
                   /\ o.asset.url \in SkippedFor("fetch_error")
                   /\ o.asset.url \notin InErrors
              /\ o.status \in ClientErrorStatus \ (NotFoundStatus \cup {TooManyRequests}) =>
                   /\ o.asset.url \in InErrors
                   /\ \A i \in 1..Len(call.result.skipped) :
                        call.result.skipped[i].url # o.asset.url
    /\ \A w \in DOMAIN gets : gets[w].get <= gets[w].req

\* C29 without the 410: 404 is skipped as fetch_error, the other 4xx end in
\* errors, nothing is requested twice by one call of fetchSingleAsset
C29_ErrorMappingOf404 ==
    /\ \A k \in 1..Len(call.outcomes) :
         LET o == call.outcomes[k]
         IN o.get =>
              /\ o.status = 404 =>
                   /\ o.asset.url \in SkippedFor("fetch_error")
                   /\ o.asset.url \notin InErrors
              /\ o.status \in ClientErrorStatus \ {404, TooManyRequests} =>
                   /\ o.asset.url \in InErrors
                   /\ \A i \in 1..Len(call.result.skipped) :
                        call.result.skipped[i].url # o.asset.url
    /\ \A w \in DOMAIN gets : gets[w].get <= gets[w].req

(***************************************************************************)
(* loadSnapshotList on a selections file of any lines.  A line is what     *)
(* line.trim() and split('|') make of it: blank, a comment, or nparts      *)
(* fields of which the first two are read as timestamp and URL.            *)
(***************************************************************************)
Line(kind, nparts, timestamp, url) ==
    [kind |-> kind, nparts |-> nparts, timestamp |-> timestamp, url |-> url]

WwwAbout == Url(WwwHost, <<"about.html">>, "")
InnerWwwHost == <<"a.", "www.">> \o Dom
PageInnerWww == Url(InnerWwwHost, <<>>, "")
RelativeUrl == Url(NoHost, <<"about.html">>, "")

SelectionLines ==
    {Line("blank", 0, NULL, NoUrl),
     Line("comment", 0, NULL, NoUrl),
     Line("fields", 2, TS1, PageRoot),
     Line("fields", 2, TS2, WwwAbout),
     Line("fields", 2, TS2, PageInnerWww),
     Line("fields", 1, TS1, NoUrl),
     Line("fields", 3, TS1, PageRoot),
     Line("fields", 2, "2023", PageAbout),
     Line("fields", 2, TS1, Mailto),
     Line("fields", 2, TS1, RelativeUrl)}

\* the body of the loop over the lines
loadSnapshotLine(rows, line) ==
    IF line.kind \in {"blank", "comment"} THEN rows
    ELSE IF line.nparts # 2 THEN rows
    ELSE IF ~Parses(line.url) THEN rows
    ELSE addUrl(rows, line.url, line.timestamp, StripWww(Host(line.url)), "pending")

InitLoad ==
    /\ urls = <<>>
    /\ pc = "loading"
    /\ cur = NoRecord
    /\ page = NoPage
    /\ call = NoCall
    /\ dbOn = FALSE
    /\ assetRows = <<>>
    /\ fs = EmptyFs
    /\ upstream = EmptyFn
    /\ gets = EmptyFn
    /\ hist = NoHist
    /\ ret = NoRecord
    /\ opts = DefaultOptions
    /\ clock = Noon
    /\ \E file \in SeqsUpTo(SelectionLines, MaxLines) :
         env = [linkFails |-> FALSE, selections |-> file]

\* loadSnapshotList: one line of the file
LoadListLine ==
    /\ pc = "loading"
    /\ urls' = loadSnapshotLine(urls, env.selections[page.line])
    /\ page' = [page EXCEPT !.line = @ + 1]
    /\ pc' = IF page.line = Len(env.selections) THEN "loaded" ELSE "loading"
    /\ UNCHANGED <<cur, call, dbOn, assetRows, fs, upstream, gets, hist, ret, opts, clock, env>>

NextLoad == LoadListLine

SpecLoad == InitLoad /\ [][NextLoad]_vars

\* TIMESTAMP|URL with a timestamp of 14 digits and an absolute http(s) URL
WellFormed(line) ==
    /\ line.kind = "fields"
    /\ line.nparts = 2
    /\ line.timestamp \in Timestamps
    /\ Parses(line.url)
    /\ Host(line.url) # EmptyHost

\* the host without a leading www.
WithoutLeadingWww(h) == IF h # <<>> /\ Head(h) = "www." THEN Tail(h) ELSE h

\* the lines read so far
LinesRead == {env.selections[i] : i \in 1..(page.line - 1)}

\* C30: after any number of lines the queue holds one pending row for every
\* well-formed line read so far, with the domain of its URL's host without
\* a leading www., and no row for any other line; the load ends after the
\* last line whatever the lines were.
C30_OnlyWellFormedLinesAdded ==
    /\ {<<urls[i].url, urls[i].timestamp, urls[i].domain, urls[i].status>> :
           i \in 1..Len(urls)}
         = {<<l.url, l.timestamp, WithoutLeadingWww(Host(l.url)), "pending">> :
              l \in {x \in LinesRead : WellFormed(x)}}
    /\ pc = "loaded" <=> page.line > Len(env.selections)

\* C30, the part that holds: blank lines, comments, lines without exactly
\* two fields and lines whose URL does not parse add no row, and every line
\* with two fields and a URL that parses is added, wherever it stands
C30_ParsingLinesAdded ==
    /\ {<<urls[i].url, urls[i].timestamp>> : i \in 1..Len(urls)}
         = {<<l.url, l.timestamp>> :
              l \in {x \in LinesRead : x.kind = "fields" /\ x.nparts = 2 /\ Parses(x.url)}}
    /\ pc = "loaded" <=> page.line > Len(env.selections)

(***************************************************************************)
(* new WaybackCrawler(options): where the credentials come from and what   *)
(* the constructor does before and after it has them.  A field that is     *)
(* undefined and a field that is the empty string are both "" (both are    *)
(* falsy, and nothing in the constructor tells them apart).                *)
(***************************************************************************)
AuthConfig(given, user, sig, access, secret) ==
    [given |-> given, loggedInUser |-> user, loggedInSig |-> sig,
     s3Access |-> access, s3Secret |-> secret]

\* no options.auth, no .env file, loadAuthFromEnv returning null
NoAuth == AuthConfig(FALSE, "", "", "", "")

AuthConfigs ==
    {NoAuth} \cup
    {AuthConfig(TRUE, user, sig, access, secret) :
        user \in {"", "steve"}, sig \in {"", "sig"},
        access \in {"", "key"}, secret \in {"", "secret"}}

\* loadAuthFromEnv: dotenv is what the lines of .env assign (given: the
\* file exists); without both required values the result is null
loadAuthFromEnv(dotenv) ==
    IF ~dotenv.given THEN NoAuth
    ELSE IF dotenv.loggedInUser = "" \/ dotenv.loggedInSig = "" THEN NoAuth
    ELSE dotenv

\* const auth = options.auth ?? loadAuthFromEnv()
ResolvedAuth(options, dotenv) ==
    IF options.auth.given THEN options.auth ELSE loadAuthFromEnv(dotenv)

\* what the constructor does, in order, once it has an auth object
ConstructorEffects(outputDirExists) ==
    <<"createLogger", "new CrawlerDB", "axios.create">>
      \o (IF outputDirExists THEN <<>> ELSE <<"mkdirSync">>)
      \o <<"new AssetFetcher">>

InitAuth ==
    /\ urls = <<>>
    /\ pc = "new"
    /\ cur = NoRecord
    /\ page = NoPage
    /\ call = NoCall
    /\ dbOn = FALSE
    /\ assetRows = <<>>
    /\ fs = EmptyFs
    /\ upstream = EmptyFn
    /\ gets = EmptyFn
    /\ hist = [NoHist EXCEPT !.lastOp = <<>>]
    /\ ret = NoRecord
    /\ \E auth \in AuthConfigs : opts = [auth |-> auth]
    /\ clock = Noon
    /\ \E dotenv \in AuthConfigs, exists \in BOOLEAN :
         env = [linkFails |-> FALSE, dotenv |-> dotenv, outputDirExists |-> exists]

\* the constructor of WaybackCrawler
Construct ==
    /\ pc = "new"
    /\ IF ResolvedAuth(opts, env.dotenv).given
       THEN /\ pc' = "constructed"
            /\ hist' = [hist EXCEPT !.lastOp = ConstructorEffects(env.outputDirExists)]
            /\ env' = [env EXCEPT !.outputDirExists = TRUE]
       ELSE /\ pc' = "threw"
            /\ UNCHANGED <<hist, env>>
    /\ UNCHANGED <<urls, cur, page, call, dbOn, assetRows, fs, upstream, gets, ret, opts, clock>>

NextAuth == Construct

SpecAuth == InitAuth /\ [][NextAuth]_vars

\* the source supplies both required fields
SuppliesBoth(auth) == auth.given /\ auth.loggedInUser # "" /\ auth.loggedInSig # ""

\* C31: when neither options.auth nor the .env file supplies both required
\* fields, the constructor has thrown whenever it has run, and it has not
\* created the logger, opened the queue database, built the session or
\* created the output directory.
C31_MissingCredentialsAreFatal ==
    (pc # "new" /\ ~SuppliesBoth(opts.auth) /\ ~SuppliesBoth(env.dotenv)) =>
        /\ pc = "threw"
        /\ hist.lastOp = <<>>

\* C31 for a caller that passes no auth option: without both values in the
\* .env file the constructor throws before it does anything else
C31_FatalWithoutAuthOption ==
    (pc # "new" /\ ~opts.auth.given /\ ~SuppliesBoth(env.dotenv)) =>
        /\ pc = "threw"
        /\ hist.lastOp = <<>>

(***************************************************************************)
(* The run of the crawler to its end: one process that is never halted and *)
(* whose awaited calls all return, so every step that can be taken is      *)
(* taken eventually.                                                       *)
(***************************************************************************)
SpecRun == InitSched /\ [][NextSched]_vars /\ WF_vars(NextSched)

Terminal == {"completed", "failed"}

TerminalKeys == {Key(urls[i]) : i \in {j \in 1..Len(urls) : urls[j].status \in Terminal}}

\* between two iterations the terminal rows are the rows picked so far, one
\* for every iteration, and a process that has ended left no pending row
PickedAreTerminal ==
    /\ pc \in {"loop", "done"} => TerminalKeys = hist.pickedSince
    /\ pc = "done" => NextCandidates(urls) = {}

\* the loop ends in the step in which getNextUrl finds no pending row, and
\* in no other
ExitsWhenNonePending ==
    pc = "loop" => (pc' = "done" <=> NextCandidates(urls) = {})

DefaultMinDelaySeconds == 30
DefaultMaxDelaySeconds == 120
\* the second argument of Math.min in processLinkWithDelay
DelayCapSeconds == 5

DelaySettings == {0, 1, 4, DelayCapSeconds, 6, DefaultMinDelaySeconds, DefaultMaxDelaySeconds}

Min(a, b) == IF a <= b THEN a ELSE b

\* Math.floor(Math.random() * (max - min + 1) + min): with Math.random() in
\* [0, 1) and whole seconds, any whole number from min to max
RandomDelays(o) == o.minDelaySeconds .. o.maxDelaySeconds

\* a pause that is the number drawn
linkDelayUncapped(drawn) == drawn

\* Math.min(drawn, 5)
linkDelay(drawn) == Min(drawn, DelayCapSeconds)

InitDelay ==
    /\ urls = <<>>
    /\ pc = "crawled"
    /\ cur = NoRecord
    /\ page = NoPage
    /\ call = NoCall
    /\ dbOn = FALSE
    /\ assetRows = <<>>
    /\ fs = EmptyFs
    /\ upstream = EmptyFn
    /\ gets = EmptyFn
    /\ hist = NoHist
    /\ ret = NoRecord
    /\ \E lo \in DelaySettings, hi \in DelaySettings :
         /\ lo <= hi
         /\ opts = [minDelaySeconds |-> lo, maxDelaySeconds |-> hi]
    /\ clock = 0
    /\ env = QuietEnv

\* processLinkWithDelay after crawlOne returned true: the pause; clock is
\* the number of seconds slept
SleepAfterLink ==
    /\ pc = "crawled"
    /\ \E drawn \in RandomDelays(opts) :
         /\ clock' = linkDelay(drawn)
         /\ hist' = [hist EXCEPT !.lastOp = <<"sleep", drawn>>]
    /\ pc' = "slept"
    /\ UNCHANGED <<urls, cur, page, call, dbOn, assetRows, fs, upstream, gets, ret, opts, env>>

NextDelay == SleepAfterLink

SpecDelay == InitDelay /\ [][NextDelay]_vars

PendingRows(rows) == {i \in 1..Len(rows) : rows[i].status = "pending"}

\* a getNextUrl call leaves the table as it was and returns url, timestamp
\* and domain of a pending row when there is one, nothing otherwise
NextStep ==
    (hist'.ops = hist.ops + 1 /\ hist'.lastOp[1] = "next") =>
        /\ urls' = urls
        /\ IF PendingRows(urls) = {}
           THEN ret' = NoRecord
           ELSE \E i \in PendingRows(urls) :
                  /\ ret'.url = urls[i].url
                  /\ ret'.timestamp = urls[i].timestamp
                  /\ ret'.domain = urls[i].domain

\* what getNextUrl returned last is no completed and no failed row
ReturnedRowIsPending ==
    (hist.lastOp[1] = "next" /\ ret # NoRecord) =>
        \A i \in 1..Len(urls) :
            Key(urls[i]) = Key(ret) => urls[i].status = "pending"

\* C34: getNextUrl returns a row whose status is pending whenever there is
\* one and nothing otherwise, never a completed or failed row, and it does
\* not change the queue.
C34_NextReturnsPendingOnly == []ReturnedRowIsPending /\ [][NextStep]_vars

\* C34 witness: getNextUrl has just returned a row of a queue that also
\* holds a completed or failed row
C34_NextOnMixedQueue ==
    /\ hist.lastOp[1] = "next"
    /\ ret # NoRecord
    /\ \E i \in 1..Len(urls) : urls[i].status \in Terminal

(***************************************************************************)
(* The crawler: the links of completed pages.                              *)
(***************************************************************************)
\* no page is between getNextUrl and the end of crawlOne
NoPageInProcess == pc \in {"stopped", "loading", "loop", "done", "aborted"}

\* the links of the body of row r that are on the page's domain
SameDomainLinks(r) ==
    {l \in LinkedFrom(r) : Host(l.url) \in {r.domain, <<"www.">> \o r.domain}}

LinksQueued(r) == \A l \in SameDomainLinks(r) : HasKey(urls, l.url, r.timestamp)

\* C35: whenever no page is being processed, after a halt and restart as
\* well, every same-domain link in the body of a completed page is a key of
\* the queue under that page's timestamp.
C35_LinkClosure ==
    NoPageInProcess =>
        \A i \in 1..Len(urls) : urls[i].status = "completed" => LinksQueued(urls[i])

\* C35 for processes that were never halted and in which nothing threw
C35_LinkClosureWithoutHalt ==
    (NoPageInProcess /\ hist.crashes = 0 /\ hist.faults = 0) =>
        \A i \in 1..Len(urls) : urls[i].status = "completed" => LinksQueued(urls[i])

(***************************************************************************)
(* The crawler on a page with one stylesheet, served from any host.        *)
(***************************************************************************)
SheetUrls == {Url(h, p, "") : h \in Hosts, p \in {<<"s.css">>, <<"css", "style.css">>}}

SheetPage(sheet) == << Elem("link", "stylesheet", sheet, "") >>

SheetSite(sheet) ==
    [u \in {PageRoot, sheet, Font} |->
        CASE u = PageRoot -> Ok(SheetPage(sheet), 700)
          [] u = sheet -> Ok(CssBody, 300)
          [] OTHER -> Err(404)]

InitSheet ==
    /\ urls = <<>>
    /\ pc = "stopped"
    /\ cur = NoRecord
    /\ page = NoPage
    /\ call = NoCall
    /\ dbOn = FALSE
    /\ assetRows = <<>>
    /\ fs = EmptyFs
    /\ \E sheet \in SheetUrls :
         upstream = [w \in {Wrapped(TS1, u) : u \in DOMAIN SheetSite(sheet)} |->
                       {SheetSite(sheet)[normalizeUrl(w)]}]
    /\ gets = EmptyFn
    /\ hist = NoHist
    /\ ret = NoRecord
    /\ opts = DefaultOptions
    /\ clock = Noon
    /\ env = QuietEnv

SpecSheet == InitSheet /\ [][NextSched]_vars

\* the stylesheets fetchAssets reported as fetched for the page in process
FetchedSheets ==
    {call.result.fetched[i] :
        i \in {j \in 1..Len(call.result.fetched) : call.result.fetched[j].type = "css"}}

\* C36: when processPageWithAssets has returned, every fetched stylesheet
\* is looked for at the path the fetcher stored it at, and the file there
\* holds the rewritten stylesheet.
C36_FetchedCssRewrittenInPlace ==
    pc = "save" =>
        \A a \in FetchedSheets :
            /\ getAssetLocalPath(a.url, cur.domain, cur.timestamp)
                 = getAssetPath(a, cur.domain, cur.timestamp)
            /\ ReadFile(fs, getAssetPath(a, cur.domain, cur.timestamp))
                 = rewriteCss(AssetAnswer(a, cur.timestamp).bytes, cur.domain)

\* C36 for a stylesheet on the page's own domain or on a third-party host
C36_RewrittenOnExactAndThirdParty ==
    pc = "save" =>
        \A a \in {x \in FetchedSheets : Host(x.url) \in {cur.domain, OtherHost}} :
            /\ getAssetLocalPath(a.url, cur.domain, cur.timestamp)
                 = getAssetPath(a, cur.domain, cur.timestamp)
            /\ ReadFile(fs, getAssetPath(a, cur.domain, cur.timestamp))
                 = rewriteCss(AssetAnswer(a, cur.timestamp).bytes, cur.domain)


(***************************************************************************)
(* The columns of a queue row agree with its status (SpecSched).           *)
(***************************************************************************)
RowAgreesWithStatus(r) ==
    /\ r.status = "pending" =>
          r.local_path = NoPath /\ r.error = NULL /\ r.fetched_at = FALSE
    /\ r.status = "completed" => r.local_path # NoPath /\ r.error = NULL
    /\ r.status = "failed" => r.error # NULL /\ r.local_path = NoPath

\* C37: during a crawl every queue row has the columns of its status: a
\* pending row has no local_path, no error and no fetched_at, a completed row
\* has a local_path and no error, a failed row has an error and no local_path
C37_RowsAgreeWithStatus == \A i \in 1..Len(urls) : RowAgreesWithStatus(urls[i])

\* C37 happens: the crawl has left a pending, a completed and a failed row
C37_AllThreeStatuses ==
    /\ pc # "queue"
    /\ \A s \in {"pending", "completed", "failed"} : getStats(urls, s) > 0

(***************************************************************************)
(* What markCompleted and markFailed change (SpecQueue).                   *)
(***************************************************************************)
Statuses == {"pending", "completed", "failed"}

MarkOps == {"completed", "failed"}

\* the count of status s after one row moved from status old to status new
Moved(n, s, old, new) ==
    n + (IF s = new THEN 1 ELSE 0) - (IF s = old THEN 1 ELSE 0)

\* a markCompleted or markFailed call on a missing key leaves the table as it
\* was; on an existing key it keeps the number of rows, every other row and
\* the key and domain of its own row, and getStats moves by one row from the
\* old status of the row to the new one
MarkStep ==
    (hist'.ops = hist.ops + 1 /\ hist'.lastOp[1] \in MarkOps) =>
        LET new == hist'.lastOp[1]
            u == hist'.lastOp[2]
            t == hist'.lastOp[3]
        IN IF ~HasKey(urls, u, t)
           THEN urls' = urls
           ELSE LET k == RowOf(urls, u, t)
                IN /\ Len(urls') = Len(urls)
                   /\ \A i \in 1..Len(urls) : i # k => urls'[i] = urls[i]
                   /\ urls'[k].url = u /\ urls'[k].timestamp = t
                   /\ urls'[k].domain = urls[k].domain
                   /\ urls'[k].status = new
                   /\ \A s \in Statuses :
                        getStats(urls', s) = Moved(getStats(urls, s), s, urls[k].status, new)

\* C38: markCompleted and markFailed change only the row with the given
\* (url, timestamp): with a key that is not in the queue nothing changes and
\* no row appears, with a key that is there the per-status counts change by
\* one move from the old status to the new one.
C38_MarkChangesOneRow == [][MarkStep]_vars

\* C38 happens: a row was just marked while another row with the same url
\* and another timestamp is in the queue, still pending
C38_MarkedBesideOtherRow ==
    /\ pc = "queue"
    /\ hist.lastOp[1] \in MarkOps
    /\ StatusOf(urls, hist.lastOp[2], hist.lastOp[3]) = hist.lastOp[1]
    /\ \E t \in Timestamps :
         /\ t # hist.lastOp[3]
         /\ StatusOf(urls, hist.lastOp[2], t) = "pending"

\* a mark call was made for a key the queue does not hold
MarkedMissingKey ==
    /\ pc = "queue"
    /\ hist.lastOp[1] \in MarkOps
    /\ Len(urls) > 0
    /\ ~HasKey(urls, hist.lastOp[2], hist.lastOp[3])

(***************************************************************************)
(* SelectiveCrawler.selectSnapshots: the first snapshot and the            *)
(* substantive changes after it.  A CDX record is its timestamp, digest    *)
(* and length; the timestamp is the instant parseTimestamp reads from it,  *)
(* counted in hours.                                                       *)
(***************************************************************************)
MaxRecords == 3

MaxSubstantive == 2

MinSizeChangePercent == 30

MinSizeChangeWithTime == 15

DaysForTimeBasedChange == 180

\* one hour short of 180 days, 180 days, and more than a year after hour 0
SnapshotTimes ==
    {0, DaysForTimeBasedChange * HoursPerDay - 1, DaysForTimeBasedChange * HoursPerDay,
     400 * HoursPerDay}

Digests == {"A", "B"}

\* parseInt(row[6], 10) || 0: a record without a length has length 0
Lengths == {0, 100, 116, 130}

CDXRecords == [timestamp : SnapshotTimes, digest : Digests, length : Lengths]

\* the lists of at most n records in chronological order, as the sort at the
\* end of fetchCDXRecords leaves them
RECURSIVE SortedRecords(_)
SortedRecords(n) ==
    IF n = 0 THEN {<<>>}
    ELSE LET shorter == SortedRecords(n - 1)
             Later(l) == {r \in CDXRecords : \A k \in 1..Len(l) : l[k].timestamp < r.timestamp}
         IN shorter \cup
            UNION {{Append(l, r) : r \in Later(l)} : l \in {x \in shorter : Len(x) = n - 1}}

SubstantiveConfig(max) ==
    [minSizeChangePercent |-> MinSizeChangePercent,
     minSizeChangeWithTime |-> MinSizeChangeWithTime,
     daysForTimeBasedChange |-> DaysForTimeBasedChange,
     maxSubstantiveSnapshots |-> max]

Abs(n) == IF n < 0 THEN -n ELSE n

\* Math.floor(|date2 - date1| / one day)
daysBetween(timestamp1, timestamp2) == Abs(timestamp2 - timestamp1) \div HoursPerDay

\* sizeChangePercent >= percent, where sizeChangePercent is
\* |current.length - lastCaptured.length| / lastCaptured.length * 100 when
\* lastCaptured.length > 0 and 100 otherwise
SizeChangeAtLeast(current, lastCaptured, percent) ==
    IF lastCaptured.length > 0
    THEN Abs(current.length - lastCaptured.length) * 100 >= percent * lastCaptured.length
    ELSE 100 >= percent

isSubstantiveChange(current, lastCaptured, config) ==
    IF current.digest = lastCaptured.digest THEN FALSE
    ELSE \/ SizeChangeAtLeast(current, lastCaptured, config.minSizeChangePercent)
         \/ /\ daysBetween(lastCaptured.timestamp, current.timestamp)
                  >= config.daysForTimeBasedChange
            /\ SizeChangeAtLeast(current, lastCaptured, config.minSizeChangeWithTime)

FirstMetadata(first) ==
    [timestamp |-> first.timestamp, digest |-> first.digest, length |-> first.length,
     captureReason |-> "first", daysElapsed |-> 0, previousDigest |-> ""]

SubstantiveMetadata(current, lastCaptured) ==
    [timestamp |-> current.timestamp, digest |-> current.digest, length |-> current.length,
     captureReason |-> "substantive",
     daysElapsed |-> daysBetween(lastCaptured.timestamp, current.timestamp),
     previousDigest |-> lastCaptured.digest]

\* the loop of selectSnapshots from index i on
RECURSIVE SelectFrom(_, _, _, _, _, _)
SelectFrom(records, i, lastCaptured, substantiveCount, result, config) ==
    IF i > Len(records) \/ substantiveCount >= config.maxSubstantiveSnapshots
    THEN result
    ELSE IF isSubstantiveChange(records[i], lastCaptured, config)
         THEN SelectFrom(records, i + 1, records[i], substantiveCount + 1,
                         [selected |-> Append(result.selected, records[i]),
                          metadata |-> Append(result.metadata,
                                              SubstantiveMetadata(records[i], lastCaptured))],
                         config)
         ELSE SelectFrom(records, i + 1, lastCaptured, substantiveCount, result, config)

NoSelection == [selected |-> <<>>, metadata |-> <<>>]

selectSnapshots(records, config) ==
    IF Len(records) = 0 THEN NoSelection
    ELSE SelectFrom(records, 2, records[1], 0,
                    [selected |-> <<records[1]>>, metadata |-> <<FirstMetadata(records[1])>>],
                    config)

InitSelect ==
    /\ urls = <<>>
    /\ pc = "listed"
    /\ cur = NoRecord
    /\ page = NoPage
    /\ \E records \in SortedRecords(MaxRecords) : call = [records |-> records]
    /\ dbOn = FALSE
    /\ assetRows = <<>>
    /\ fs = EmptyFs
    /\ upstream = EmptyFn
    /\ gets = EmptyFn
    /\ hist = NoHist
    /\ ret = NoSelection
    /\ \E max \in 0..MaxSubstantive : opts = SubstantiveConfig(max)
    /\ clock = 0
    /\ env = QuietEnv

SelectSnapshots ==
    /\ pc = "listed"
    /\ ret' = selectSnapshots(call.records, opts)
    /\ pc' = "selected"
    /\ UNCHANGED <<urls, cur, page, call, dbOn, assetRows, fs, upstream, gets, hist, opts,
                   clock, env>>

NextSelect == SelectSnapshots

SpecSelect == InitSelect /\ [][NextSelect]_vars

\* sel is records with some records left out, the others in their order
IsSubsequence(sel, records) ==
    \E f \in [1..Len(sel) -> 1..Len(records)] :
        /\ \A k \in 1..Len(sel) : sel[k] = records[f[k]]
        /\ \A j \in 1..Len(sel), k \in 1..Len(sel) : j < k => f[j] < f[k]

\* the length changed from prev to next by at least percent of prev: a
\* length unchanged is no change, a growth from 0 is one of any percentage
LengthChangedBy(prev, next, percent) ==
    /\ next.length # prev.length
    /\ Abs(next.length - prev.length) * 100 >= percent * prev.length

MeetsThresholds(prev, next) ==
    \/ LengthChangedBy(prev, next, MinSizeChangePercent)
    \/ /\ next.timestamp - prev.timestamp >= DaysForTimeBasedChange * HoursPerDay
       /\ LengthChangedBy(prev, next, MinSizeChangeWithTime)

SelectionShape ==
    /\ IsSubsequence(ret.selected, call.records)
    /\ ret.selected[1] = call.records[1]
    /\ Len(ret.selected) <= 1 + opts.maxSubstantiveSnapshots
    /\ \A k \in 2..Len(ret.selected) : ret.selected[k].digest # ret.selected[k - 1].digest

\* C39: selectSnapshots on a chronologically sorted non-empty list returns
\* a subsequence in the list's order that starts with the first record and
\* has at most 1 + maxSubstantiveSnapshots records, and every later selected
\* record differs in digest from the record selected before it and, against
\* that record, changed in length by at least 30%, or by at least 15% with
\* at least 180 days between them.
C39_SelectsSubstantiveChanges ==
    (pc = "selected" /\ Len(call.records) > 0) =>
        /\ SelectionShape
        /\ \A k \in 2..Len(ret.selected) :
             MeetsThresholds(ret.selected[k - 1], ret.selected[k])

\* the same for the selected records whose predecessor has a length: the
\* rule holds wherever the record selected before is not of length 0
C39_SelectsSubstantiveChangesAfterSized ==
    (pc = "selected" /\ Len(call.records) > 0) =>
        /\ SelectionShape
        /\ \A k \in 2..Len(ret.selected) :
             ret.selected[k - 1].length > 0 =>
                 MeetsThresholds(ret.selected[k - 1], ret.selected[k])

\* the limit stopped the loop before a record that would have been selected
C39_StoppedAtLimit ==
    /\ pc = "selected"
    /\ Len(ret.selected) = 1 + opts.maxSubstantiveSnapshots
    /\ Len(ret.selected) = 2
    /\ Len(call.records) = 3
    /\ isSubstantiveChange(call.records[3], ret.selected[2], opts)

=========================================================================
